---- MODULE Spec2Model ----
(***************************************************************************)
(* A model of the potential-field core of terraf: Euler deconvolution, the *)
(* depth filter and the clustering of its estimates, the sphere and prism  *)
(* forward models, and the grid derivative / regional-residual routines of *)
(* TerrafMag.                                                              *)
(*                                                                         *)
(* Floating-point values are modelled as NaN, +/-Inf or an exact rational  *)
(* number; the arithmetic follows IEEE 754 on those (NaN is absorbing,     *)
(* every comparison with NaN is false, inf*0 and inf-inf are NaN).         *)
(***************************************************************************)
EXTENDS Integers, Sequences, FiniteSets, TLC

VARIABLES
    eu_args,      \* euler_deconvolution: the arguments of the running call
    eu_pc,        \* euler_deconvolution: "idle", "loop" or "done"
    i,            \* euler_deconvolution: the loop variable (start of the next window)
    soluciones,   \* euler_deconvolution: the list of accepted solutions
    eu_trace,     \* history: what each processed window did
    df_euler,     \* euler_deconvolution: the returned table
    fl_args,      \* filtro_profundidad: soluciones_euler, z_min, z_max of the call
    fl_pc,        \* "idle", "start", "filtered", "refiltered" or "raised"
    fl_result,    \* filtro_profundidad: the returned table
    fl_again,     \* filtro_profundidad applied to its own result
    cl_args,      \* clustering_fuentes: soluciones_euler and radio of the call
    cl_pc,        \* "idle", "linkage", "labelled", "done" or "raised"
    cl_groups,    \* fclusterdata: the clusters merged so far (sets of row positions)
    clusters,     \* clustering_fuentes: the cluster id of every row
    cl_ids,       \* clustering_fuentes: the ids the centroid loop has still to visit
    centroides,   \* clustering_fuentes: the centroids computed so far
    pr_args,      \* forward_magnetic_prism: the arguments of the call
    pr_pc,        \* "idle", "loop" or "done"
    pr_loop,      \* forward_magnetic_prism: positions of xi, yi, zi in their grids
    anomaly_total, \* forward_magnetic_prism: the accumulated anomaly, per observation
    rg_args,      \* calcular_residual_grid: the arguments of the call
    rg_pc,        \* "idle", "start", "fitted", "done" or "raised"
    X_matrix,     \* calcular_residual_grid: the design matrix of the fit
    coeffs,       \* calcular_residual_grid: the fitted coefficients
    regional,     \* calcular_residual_grid: the returned trend
    residual,     \* calcular_residual_grid: the returned residual
    datos,        \* TerrafMag.datos: the loaded dataset, or None
    campo_total,  \* TerrafMag.campo_total: the field values, or None
    anomalia,     \* TerrafMag.anomalia: the residual anomaly, or None
    tm_ret,       \* TerrafMag: the last call on the instance and how it ended
    reduccion_polo, \* TerrafMag.reduccion_polo: the field reduced to the pole, or None
    derivadas,    \* TerrafMag.derivadas: the dictionary of derived arrays
    estadisticas, \* TerrafMag.estadisticas: the dictionary of statistics
    coords_cache, \* TerrafMag._coords_cache: the cached coordinates, or None
    bounds_cache, \* TerrafMag._bounds_cache: None, or the bounds cached per target CRS
    tm_calls,     \* TerrafMag: analysis operations called so far
    dv_args,      \* calcular_derivadas_grid: the arguments of the call
    dv_pc,        \* "idle", "horizontal", "thg", "vertical", "tilt", "signal" or "done"
    results,      \* calcular_derivadas_grid: the dictionary of derivatives
    na_args,      \* normalizar_array: the arguments of the call
    na_pc,        \* "idle", "called", "returned" or "raised"
    arr_norm,     \* normalizar_array: the returned array
    jc_args,      \* inversion_conjunta: the interpolated layers and the weights
    jc_pc,        \* "idle", "mag", "indices", "combine" or "done"
    jc_i,         \* inversion_conjunta: indicator layers handled so far
    mag_norm,     \* inversion_conjunta: the normalized magnetic layer
    spec_combined, \* inversion_conjunta: the combined indicator layer
    n_indices,    \* inversion_conjunta: indicator layers added so far
    prospectivity, \* inversion_conjunta: the returned prospectivity grid
    jc_trace,     \* inversion_conjunta: every normalization done, input and output
    inv_args,     \* inversion_susceptibility_3d: the arguments of the call
    inv_pc,       \* "idle", "mesh", "kernel", "done" or "raised"
    inv_cols,     \* inversion_susceptibility_3d: the columns of G computed so far
    G,            \* inversion_susceptibility_3d: the sensitivity matrix
    inv_error,    \* inversion_susceptibility_3d: the exception that left the call
    resultado     \* inversion_susceptibility_3d: the returned dictionary, or None

eulerVars == <<eu_args, eu_pc, i, soluciones, eu_trace, df_euler>>

filterVars == <<fl_args, fl_pc, fl_result, fl_again>>

clusterVars == <<cl_args, cl_pc, cl_groups, clusters, cl_ids, centroides>>

prismVars == <<pr_args, pr_pc, pr_loop, anomaly_total>>

gridVars == <<rg_args, rg_pc, X_matrix, coeffs, regional, residual>>

magVars ==
    <<datos, campo_total, anomalia, tm_ret, reduccion_polo, derivadas, estadisticas,
      coords_cache, bounds_cache, tm_calls>>

derivVars == <<dv_args, dv_pc, results>>

normVars == <<na_args, na_pc, arr_norm>>

jointVars ==
    <<jc_args, jc_pc, jc_i, mag_norm, spec_combined, n_indices, prospectivity, jc_trace>>

inverseVars == <<inv_args, inv_pc, inv_cols, G, inv_error, resultado>>

vars ==
    <<eulerVars, filterVars, clusterVars, prismVars, gridVars, magVars, derivVars,
      normVars, jointVars, inverseVars>>

-----------------------------------------------------------------------------
(* Floating point values *)

NaN == [k |-> "nan"]

Inf(sign) == [k |-> "inf", s |-> sign]

Abs(a) == IF a < 0 THEN -a ELSE a

RECURSIVE GCD(_, _)
GCD(a, b) == IF b = 0 THEN a ELSE GCD(b, a % b)

\* The rational n/d in lowest terms with a positive denominator.
Rat(n, d) ==
    LET g == GCD(Abs(n), Abs(d))
        s == IF d < 0 THEN -1 ELSE 1
    IN [k |-> "q", n |-> s * (n \div g), d |-> s * (d \div g)]

Q(n) == [k |-> "q", n |-> n, d |-> 1]

IsNaN(v) == v.k = "nan"

IsInf(v) == v.k = "inf"

IsFinite(v) == v.k = "q"

Sgn(v) == IF IsInf(v) THEN v.s ELSE IF v.n > 0 THEN 1 ELSE IF v.n < 0 THEN -1 ELSE 0

FNeg(a) ==
    IF IsNaN(a) THEN NaN
    ELSE IF IsInf(a) THEN Inf(-a.s)
    ELSE [k |-> "q", n |-> -a.n, d |-> a.d]

FAdd(a, b) ==
    IF IsNaN(a) \/ IsNaN(b) THEN NaN
    ELSE IF IsInf(a) /\ IsInf(b) THEN (IF a.s = b.s THEN a ELSE NaN)
    ELSE IF IsInf(a) THEN a
    ELSE IF IsInf(b) THEN b
    ELSE LET g == GCD(a.d, b.d)
         IN Rat(a.n * (b.d \div g) + b.n * (a.d \div g), (a.d \div g) * b.d)

FSub(a, b) == FAdd(a, FNeg(b))

FMul(a, b) ==
    IF IsNaN(a) \/ IsNaN(b) THEN NaN
    ELSE IF IsInf(a) \/ IsInf(b)
         THEN (IF Sgn(a) = 0 \/ Sgn(b) = 0 THEN NaN ELSE Inf(Sgn(a) * Sgn(b)))
    ELSE LET g1 == GCD(Abs(a.n), b.d)
             g2 == GCD(Abs(b.n), a.d)
         IN Rat((a.n \div g1) * (b.n \div g2), (a.d \div g2) * (b.d \div g1))

FDiv(a, b) ==
    IF IsNaN(a) \/ IsNaN(b) THEN NaN
    ELSE IF IsInf(a) THEN (IF IsInf(b) THEN NaN
                           ELSE Inf(a.s * (IF Sgn(b) < 0 THEN -1 ELSE 1)))
    ELSE IF IsInf(b) THEN Q(0)
    ELSE IF b.n = 0 THEN (IF a.n = 0 THEN NaN ELSE Inf(Sgn(a)))
    ELSE LET g1 == GCD(Abs(a.n), Abs(b.n))
             g2 == GCD(b.d, a.d)
         IN Rat((a.n \div g1) * (b.d \div g2), (a.d \div g2) * (b.n \div g1))

FLt(a, b) ==
    /\ ~IsNaN(a)
    /\ ~IsNaN(b)
    /\ IF IsInf(a) /\ IsInf(b) THEN a.s < b.s
       ELSE IF IsInf(a) THEN a.s < 0
       ELSE IF IsInf(b) THEN b.s > 0
       ELSE a.n * b.d < b.n * a.d

FGt(a, b) == FLt(b, a)

FLe(a, b) == ~IsNaN(a) /\ ~IsNaN(b) /\ ~FLt(b, a)

FGe(a, b) == FLe(b, a)

\* sqrt of a value, kept symbolic: the root of a rational is in general irrational.
FSqrt(a) ==
    IF IsNaN(a) THEN NaN
    ELSE IF IsInf(a) THEN (IF a.s > 0 THEN a ELSE NaN)
    ELSE IF a.n < 0 THEN NaN
    ELSE [k |-> "sqrt", of |-> a]

RECURSIVE FSum(_)
FSum(s) == IF s = <<>> THEN Q(0) ELSE FAdd(FSum(SubSeq(s, 1, Len(s) - 1)), s[Len(s)])

-----------------------------------------------------------------------------
(* Linear algebra on vectors (sequences) and matrices (sequences of rows) *)

Dot(u, v) == FSum([c \in 1..Len(u) |-> FMul(u[c], v[c])])

MatVec(A, v) == [r \in 1..Len(A) |-> Dot(A[r], v)]

Transpose(A, ncols) == [c \in 1..ncols |-> [r \in 1..Len(A) |-> A[r][c]]]

\* A A^T
Gram(A) == [r \in 1..Len(A) |-> [c \in 1..Len(A) |-> Dot(A[r], A[c])]]

AllFinite(v) == \A c \in 1..Len(v) : IsFinite(v[c])

MinOf(S) == CHOOSE a \in S : \A b \in S : a <= b

\* Gauss-Jordan elimination of M (every row of the same width) with pivots in
\* columns c..lim, next pivot row r; piv collects the <<row, column>> pivots.
RECURSIVE GaussJordan(_, _, _, _, _)
GaussJordan(M, lim, c, r, piv) ==
    LET m == Len(M)
    IN IF c > lim \/ r > m THEN [M |-> M, piv |-> piv]
       ELSE LET cand == {p \in r..m : M[p][c].n # 0}
            IN IF cand = {} THEN GaussJordan(M, lim, c + 1, r, piv)
               ELSE LET p == MinOf(cand)
                        M1 == [q \in 1..m |-> IF q = r THEN M[p] ELSE IF q = p THEN M[r] ELSE M[q]]
                        prow == [j \in 1..Len(M1[r]) |-> FDiv(M1[r][j], M1[r][c])]
                        M2 == [q \in 1..m |->
                                 IF q = r THEN prow
                                 ELSE [j \in 1..Len(M1[q]) |->
                                         FSub(M1[q][j], FMul(M1[q][c], prow[j]))]]
                    IN GaussJordan(M2, lim, c + 1, r + 1, Append(piv, <<r, c>>))

\* One solution of the consistent square system S y = t (free unknowns are 0).
SolveConsistent(S, t) ==
    LET m == Len(S)
        aug == [r \in 1..m |-> Append(S[r], t[r])]
        gj == GaussJordan(aug, m, 1, 1, <<>>)
    IN [c \in 1..m |->
          IF \E p \in 1..Len(gj.piv) : gj.piv[p][2] = c
          THEN LET p == CHOOSE p \in 1..Len(gj.piv) : gj.piv[p][2] = c
               IN gj.M[gj.piv[p][1]][m + 1]
          ELSE Q(0)]

\* The minimum-norm least-squares solution of A v = b for finite A (m rows, ncols
\* columns) and b, the pseudo-inverse of A applied to b. With A = C R, C the
\* pivot columns of A and R the non-zero rows of its reduced echelon form, it is
\* v = R^T (R R^T)^-1 (C^T C)^-1 C^T b. This is what LAPACK's gelsd returns; with
\* rcond=None its rank cut-off (machine epsilon times the largest singular value)
\* agrees with the exact rank on the small numbers used here.
MinNormSolution(A, b, ncols) ==
    LET gj == GaussJordan(A, ncols, 1, 1, <<>>)
        rank == Len(gj.piv)
        R == [r \in 1..rank |-> gj.M[r]]
        Ct == [r \in 1..rank |-> [q \in 1..Len(A) |-> A[q][gj.piv[r][2]]]]
        u == SolveConsistent(Gram(Ct), MatVec(Ct, b))
        w == SolveConsistent(Gram(R), u)
    IN MatVec(Transpose(R, ncols), w)

\* np.linalg.lstsq(A, b, rcond=None): the outcomes of one call. With a non-finite
\* entry the LAPACK driver either fails to converge (numpy raises LinAlgError) or
\* returns NaNs, depending on the build.
LstsqOutcomes(A, b, ncols) ==
    IF (\A r \in 1..Len(A) : AllFinite(A[r])) /\ AllFinite(b)
    THEN {[raised |-> FALSE, sol |-> MinNormSolution(A, b, ncols)]}
    ELSE {[raised |-> TRUE, sol |-> <<>>],
          [raised |-> FALSE, sol |-> [c \in 1..ncols |-> NaN]]}

-----------------------------------------------------------------------------
(* TerrafInv.euler_deconvolution *)

\* Bounds of the model: the longest series and the widest window tried.
MaxN == 4

MaxVentana == 3

\* The depth limit of line 91 (5 km).
Z_LIMIT == 5000

\* Python's arr[lo:hi] on a sequence (0-based lo, exclusive hi, clipped to the array).
Slice(arr, lo, hi) ==
    LET h == IF hi > Len(arr) THEN Len(arr) ELSE hi
    IN IF lo >= h THEN <<>> ELSE [c \in 1..(h - lo) |-> arr[lo + c]]

AnyNaN(v) == \E c \in 1..Len(v) : IsNaN(v[c])

Min2(a, b) == IF a < b THEN a ELSE b

\* Mutant: the window stops one sample early.
Window_Short(args, start) ==
    LET hi == start + args.ventana - 1
    IN [x_w |-> Slice(args.x, start, hi),
        y_w |-> Slice(args.y, start, hi),
        T_w |-> Slice(args.mag, start, hi),
        dTdx_w |-> Slice(args.dx_mag, start, hi),
        dTdy_w |-> Slice(args.dy_mag, start, hi),
        dTdz_w |-> Slice(args.dz_mag, start, hi)]

\* The six windows cut by idx = slice(i, min(i + ventana, n)).
Window(args, start) ==
    LET n == Len(args.x)
        hi == Min2(start + args.ventana, n)
    IN [x_w |-> Slice(args.x, start, hi),
        y_w |-> Slice(args.y, start, hi),
        T_w |-> Slice(args.mag, start, hi),
        dTdx_w |-> Slice(args.dx_mag, start, hi),
        dTdy_w |-> Slice(args.dy_mag, start, hi),
        dTdz_w |-> Slice(args.dz_mag, start, hi)]

\* np.isnan([x_w, y_w, T_w, dTdx_w, dTdy_w, dTdz_w]) needs six slices of one length
\* to build its array.
Homogeneous(w) ==
    \A s \in {w.y_w, w.T_w, w.dTdx_w, w.dTdy_w, w.dTdz_w} : Len(s) = Len(w.x_w)

\* Mutant: the NaN test forgets the field itself.
WindowHasNaN_NoField(w) ==
    AnyNaN(w.x_w) \/ AnyNaN(w.y_w)
        \/ AnyNaN(w.dTdx_w) \/ AnyNaN(w.dTdy_w) \/ AnyNaN(w.dTdz_w)

\* np.any(np.isnan([x_w, y_w, T_w, dTdx_w, dTdy_w, dTdz_w]))
WindowHasNaN(w) ==
    AnyNaN(w.x_w) \/ AnyNaN(w.y_w) \/ AnyNaN(w.T_w)
        \/ AnyNaN(w.dTdx_w) \/ AnyNaN(w.dTdy_w) \/ AnyNaN(w.dTdz_w)

\* A = column_stack([dTdx_w, dTdy_w, dTdz_w, full(len(x_w), -N)])
DesignA(w, N) ==
    [r \in 1..Len(w.x_w) |-> <<w.dTdx_w[r], w.dTdy_w[r], w.dTdz_w[r], FNeg(N)>>]

\* Mutant: the right-hand side of Euler's equation with the field in it,
\* x dT/dx + y dT/dy + N T.
TargetB_WithField(w) ==
    [r \in 1..Len(w.x_w) |->
        FAdd(FAdd(FMul(w.x_w[r], w.dTdx_w[r]), FMul(w.y_w[r], w.dTdy_w[r])),
             w.T_w[r])]

\* b = x_w * dTdx_w + y_w * dTdy_w + 0 * dTdz_w
TargetB(w) ==
    [r \in 1..Len(w.x_w) |->
        FAdd(FAdd(FMul(w.x_w[r], w.dTdx_w[r]), FMul(w.y_w[r], w.dTdy_w[r])),
             FMul(Q(0), w.dTdz_w[r]))]

\* Mutant: the depth test with inclusive bounds.
DepthAccepted_Inclusive(z0) == FGe(z0, Q(0)) /\ FLe(z0, Q(Z_LIMIT))

\* if z0 > 0 and z0 < 5000
DepthAccepted(z0) == FGt(z0, Q(0)) /\ FLt(z0, Q(Z_LIMIT))

\* residual = np.linalg.norm(A @ sol - b)
ResidualNorm(A, sol, b) ==
    LET Ax == MatVec(A, sol)
        d == [r \in 1..Len(b) |-> FSub(Ax[r], b[r])]
    IN FSqrt(Dot(d, d))

\* The body of the try block for one lstsq outcome: the rows it appends.
SolveRows(w, N, out) ==
    IF out.raised THEN <<>>
    ELSE LET z0 == out.sol[3]
         IN IF DepthAccepted(z0)
            THEN <<[x0 |-> out.sol[1], y0 |-> out.sol[2], z0 |-> z0,
                    base_level |-> out.sol[4],
                    residual |-> ResidualNorm(DesignA(w, N), out.sol, TargetB(w)),
                    n_points |-> Len(w.x_w)]>>
            ELSE <<>>

NoOutcome == [raised |-> FALSE, sol |-> <<>>]

\* pd.DataFrame(soluciones): a list of dicts gives their keys as columns and a
\* RangeIndex; an empty list gives a frame with no columns at all.
EulerColumns == {"x0", "y0", "z0", "base_level", "residual", "n_points"}

DataFrame(rows) ==
    [columns |-> IF rows = <<>> THEN {} ELSE EulerColumns,
     index |-> [c \in 1..Len(rows) |-> c - 1],
     rows |-> rows]

NoFrame == [columns |-> {}, index |-> <<>>, rows |-> <<>>]

\* The samples the series are drawn from: clean ones that give depths inside and
\* outside (0, 5000), one with NaN in each of the six inputs, one with an infinity.
Sample(x, y, mag, dx, dy, dz) ==
    [x |-> x, y |-> y, mag |-> mag, dx |-> dx, dy |-> dy, dz |-> dz]

CleanSamples ==
    {Sample(Q(0), Q(0), Q(1), Q(1), Q(0), Q(0)),
     Sample(Q(7), Q(0), Q(2), Q(1), Q(0), Q(1)),
     Sample(Q(5000), Q(0), Q(3), Q(1), Q(0), Q(1))}

NaNSamples ==
    {Sample(NaN, Q(0), Q(1), Q(1), Q(0), Q(1)),
     Sample(Q(7), NaN, Q(1), Q(1), Q(0), Q(1)),
     Sample(Q(7), Q(0), NaN, Q(1), Q(0), Q(1)),
     Sample(Q(7), Q(0), Q(1), NaN, Q(0), Q(1)),
     Sample(Q(7), Q(0), Q(1), Q(1), NaN, Q(1)),
     Sample(Q(7), Q(0), Q(1), Q(1), Q(0), NaN)}

InfSamples == {Sample(Q(7), Q(0), Q(1), Inf(1), Q(0), Q(1))}

Samples == CleanSamples \cup NaNSamples \cup InfSamples

\* The series of n samples of which at most one is not clean.
SeriesOf(n) ==
    {s \in [1..n -> Samples] :
        \A c1, c2 \in 1..n :
            s[c1] \notin CleanSamples /\ s[c2] \notin CleanSamples => c1 = c2}

EulerArgs(series, N, ventana) ==
    [x |-> [c \in 1..Len(series) |-> series[c].x],
     y |-> [c \in 1..Len(series) |-> series[c].y],
     mag |-> [c \in 1..Len(series) |-> series[c].mag],
     dx_mag |-> [c \in 1..Len(series) |-> series[c].dx],
     dy_mag |-> [c \in 1..Len(series) |-> series[c].dy],
     dz_mag |-> [c \in 1..Len(series) |-> series[c].dz],
     structural_index |-> N,
     ventana |-> ventana]

EulerStart ==
    /\ \E n \in 2..MaxN, ventana \in 2..MaxVentana :
          \E series \in SeriesOf(n) : eu_args = EulerArgs(series, Q(1), ventana)
    /\ eu_pc = "loop"
    /\ i = 0
    /\ soluciones = <<>>
    /\ eu_trace = <<>>
    /\ df_euler = NoFrame

\* for i in range(0, n - ventana, ventana // 2): one iteration whose window holds a NaN.
EulerSkipNaN ==
    /\ eu_pc = "loop"
    /\ i < Len(eu_args.x) - eu_args.ventana
    /\ Homogeneous(Window(eu_args, i))
    /\ WindowHasNaN(Window(eu_args, i))
    /\ i' = i + (eu_args.ventana \div 2)
    /\ eu_trace' = Append(eu_trace, [start |-> i, kind |-> "nan", out |-> NoOutcome,
                                     rows |-> <<>>])
    /\ UNCHANGED <<eu_args, eu_pc, soluciones, df_euler>>

\* Mutant: no except clause, so a failed solve leaves the function.
EulerSolveWindow_NoCatch ==
    /\ eu_pc = "loop"
    /\ i < Len(eu_args.x) - eu_args.ventana
    /\ LET w == Window(eu_args, i)
           N == eu_args.structural_index
       IN /\ Homogeneous(w)
          /\ ~WindowHasNaN(w)
          /\ \E out \in LstsqOutcomes(DesignA(w, N), TargetB(w), 4) :
                LET rows == SolveRows(w, N, out)
                IN /\ soluciones' = soluciones \o rows
                   /\ eu_trace' = Append(eu_trace, [start |-> i, kind |-> "solved",
                                                    out |-> out, rows |-> rows])
                   /\ eu_pc' = IF out.raised THEN "raised" ELSE eu_pc
    /\ i' = i + (eu_args.ventana \div 2)
    /\ UNCHANGED <<eu_args, df_euler>>

\* One iteration whose window holds no NaN: the solve, the depth test, the append.
EulerSolveWindow ==
    /\ eu_pc = "loop"
    /\ i < Len(eu_args.x) - eu_args.ventana
    /\ LET w == Window(eu_args, i)
           N == eu_args.structural_index
       IN /\ Homogeneous(w)
          /\ ~WindowHasNaN(w)
          /\ \E out \in LstsqOutcomes(DesignA(w, N), TargetB(w), 4) :
                LET rows == SolveRows(w, N, out)
                IN /\ soluciones' = soluciones \o rows
                   /\ eu_trace' = Append(eu_trace, [start |-> i, kind |-> "solved",
                                                    out |-> out, rows |-> rows])
    /\ i' = i + (eu_args.ventana \div 2)
    /\ UNCHANGED <<eu_args, eu_pc, df_euler>>

\* The loop is exhausted: df_euler = pd.DataFrame(soluciones); return df_euler.
EulerReturn ==
    /\ eu_pc = "loop"
    /\ i >= Len(eu_args.x) - eu_args.ventana
    /\ df_euler' = DataFrame(soluciones)
    /\ eu_pc' = "done"
    /\ UNCHANGED <<eu_args, i, soluciones, eu_trace>>

EulerIdle ==
    /\ eu_args = EulerArgs(<<>>, Q(1), 2)
    /\ eu_pc = "idle"
    /\ i = 0
    /\ soluciones = <<>>
    /\ eu_trace = <<>>
    /\ df_euler = NoFrame

EulerNext == EulerSkipNaN \/ EulerSolveWindow \/ EulerReturn

\* range(0, n - ventana, ventana // 2) as a set.
WindowStarts(args) ==
    {k \in 0..Len(args.x) :
        k % (args.ventana \div 2) = 0 /\ k < Len(args.x) - args.ventana}

TraceStarts == {eu_trace[t].start : t \in 1..Len(eu_trace)}

\* The loop body of lines 62-104 run for the windows in any order: one window
\* that was not handled yet, skipped for a NaN or solved. The loop variable is
\* not used to pick it.
EulerAnyWindow ==
    /\ eu_pc = "loop"
    /\ \E start \in WindowStarts(eu_args) \ TraceStarts :
          LET w == Window(eu_args, start)
              N == eu_args.structural_index
          IN IF WindowHasNaN(w)
             THEN /\ eu_trace' = Append(eu_trace, [start |-> start, kind |-> "nan",
                                                   out |-> NoOutcome, rows |-> <<>>])
                  /\ soluciones' = soluciones
             ELSE \E out \in LstsqOutcomes(DesignA(w, N), TargetB(w), 4) :
                     LET rows == SolveRows(w, N, out)
                     IN /\ soluciones' = soluciones \o rows
                        /\ eu_trace' = Append(eu_trace, [start |-> start, kind |-> "solved",
                                                         out |-> out, rows |-> rows])
    /\ UNCHANGED <<eu_args, eu_pc, i, df_euler>>

\* Every window was handled: df_euler = pd.DataFrame(soluciones); return df_euler.
EulerAnyReturn ==
    /\ eu_pc = "loop"
    /\ WindowStarts(eu_args) \subseteq TraceStarts
    /\ df_euler' = DataFrame(soluciones)
    /\ eu_pc' = "done"
    /\ UNCHANGED <<eu_args, i, soluciones, eu_trace>>

EulerAnyOrderNext == EulerAnyWindow \/ EulerAnyReturn

\* The calls whose windows are taken in any order: clean series, and series with
\* one sample whose field is NaN.
EulerAnyOrderStart ==
    /\ \E n \in 2..MaxN, ventana \in 2..MaxVentana :
          \E series \in SeriesOf(n) :
              /\ \A c \in 1..n :
                    series[c] \in CleanSamples \cup {Sample(Q(7), Q(0), NaN, Q(1), Q(0), Q(1))}
              /\ eu_args = EulerArgs(series, Q(1), ventana)
    /\ eu_pc = "loop"
    /\ i = 0
    /\ soluciones = <<>>
    /\ eu_trace = <<>>
    /\ df_euler = NoFrame

\* One iteration whose slices differ in length: line 73 raises (ValueError, or
\* TypeError on an older numpy) outside the try block, and the call is left.
EulerRaggedWindow ==
    /\ eu_pc = "loop"
    /\ i < Len(eu_args.x) - eu_args.ventana
    /\ ~Homogeneous(Window(eu_args, i))
    /\ eu_pc' = "raised"
    /\ UNCHANGED <<eu_args, i, soluciones, eu_trace, df_euler>>

\* An array one element longer (its last value repeated) or -delta elements shorter.
Resize(arr, delta) ==
    IF delta > 0 THEN Append(arr, arr[Len(arr)]) ELSE SubSeq(arr, 1, Len(arr) + delta)

InputNames == {"x", "y", "mag", "dx_mag", "dy_mag", "dz_mag"}

\* Calls whose six arrays are not of one length: one of them resized.
EulerShapesStart ==
    /\ \E n \in 2..MaxN, ventana \in 2..MaxVentana, name \in InputNames, delta \in {-2, -1, 1} :
          \E series \in SeriesOf(n) :
              LET args == EulerArgs(series, Q(1), ventana)
              IN eu_args = [args EXCEPT ![name] = Resize(@, delta)]
    /\ eu_pc = "loop"
    /\ i = 0
    /\ soluciones = <<>>
    /\ eu_trace = <<>>
    /\ df_euler = NoFrame

EulerShapesNext == EulerRaggedWindow \/ EulerSkipNaN \/ EulerSolveWindow \/ EulerReturn

-----------------------------------------------------------------------------
(* TerrafInv.filtro_profundidad *)

\* The longest table tried.
MaxRows == 3

\* The positions of mask that are TRUE, in increasing order.
RECURSIVE TruePositions(_)
TruePositions(mask) ==
    IF mask = <<>> THEN <<>>
    ELSE LET front == TruePositions(SubSeq(mask, 1, Len(mask) - 1))
         IN IF mask[Len(mask)] THEN Append(front, Len(mask)) ELSE front

\* frame[mask].copy(): the rows where mask is True, with their index labels.
BooleanIndex(frame, mask) ==
    LET keep == TruePositions(mask)
    IN [columns |-> frame.columns,
        index |-> [c \in 1..Len(keep) |-> frame.index[keep[c]]],
        rows |-> [c \in 1..Len(keep) |-> frame.rows[keep[c]]]]

\* Mutant: the depth mask with exclusive bounds.
DepthMask_Exclusive(frame, z_min, z_max) ==
    [r \in 1..Len(frame.rows) |->
        FGt(frame.rows[r].z0, z_min) /\ FLt(frame.rows[r].z0, z_max)]

\* mask = (soluciones_euler['z0'] >= z_min) & (soluciones_euler['z0'] <= z_max)
DepthMask(frame, z_min, z_max) ==
    [r \in 1..Len(frame.rows) |->
        FGe(frame.rows[r].z0, z_min) /\ FLe(frame.rows[r].z0, z_max)]

\* filtro_profundidad(soluciones_euler, z_min, z_max): the returned frame, or the
\* KeyError of soluciones_euler['z0'] on a frame without that column.
filtro_profundidad(frame, z_min, z_max) ==
    IF "z0" \notin frame.columns
    THEN [raised |-> "KeyError", frame |-> NoFrame]
    ELSE [raised |-> "", frame |-> BooleanIndex(frame, DepthMask(frame, z_min, z_max))]

\* The depths and the bounds the tables and calls are drawn from.
TableDepths == {NaN, Q(0), Q(10), Q(11), Q(5000)}

FilterBounds == {Q(0), Q(10), Q(5000)}

\* A frame of Source Estimates with the given depths; x0 tells the rows apart.
EstimateFrame(depths) ==
    [columns |-> EulerColumns,
     index |-> [c \in 1..Len(depths) |-> c - 1],
     rows |-> [c \in 1..Len(depths) |->
                 [x0 |-> Q(c), y0 |-> Q(0), z0 |-> depths[c], base_level |-> Q(0),
                  residual |-> Q(0), n_points |-> 5]]]

FilterTables ==
    {DataFrame(<<>>)} \cup
    {EstimateFrame(depths) : depths \in UNION {[1..n -> TableDepths] : n \in 0..MaxRows}}

FilterStart ==
    /\ \E frame \in FilterTables, z_min \in FilterBounds, z_max \in FilterBounds :
          fl_args = [soluciones_euler |-> frame, z_min |-> z_min, z_max |-> z_max]
    /\ fl_pc = "start"
    /\ fl_result = NoFrame
    /\ fl_again = NoFrame

FilterIdle ==
    /\ fl_args = [soluciones_euler |-> NoFrame, z_min |-> Q(0), z_max |-> Q(Z_LIMIT)]
    /\ fl_pc = "idle"
    /\ fl_result = NoFrame
    /\ fl_again = NoFrame

\* result = inv.filtro_profundidad(soluciones_euler, z_min, z_max)
FilterCall ==
    /\ fl_pc = "start"
    /\ LET out == filtro_profundidad(fl_args.soluciones_euler, fl_args.z_min, fl_args.z_max)
       IN /\ fl_pc' = IF out.raised = "" THEN "filtered" ELSE "raised"
          /\ fl_result' = out.frame
    /\ UNCHANGED <<fl_args, fl_again>>

\* again = inv.filtro_profundidad(result, z_min, z_max)
FilterAgain ==
    /\ fl_pc = "filtered"
    /\ LET out == filtro_profundidad(fl_result, fl_args.z_min, fl_args.z_max)
       IN /\ fl_pc' = IF out.raised = "" THEN "refiltered" ELSE "raised"
          /\ fl_again' = out.frame
    /\ UNCHANGED <<fl_args, fl_result>>

FilterNext == FilterCall \/ FilterAgain

-----------------------------------------------------------------------------
(* TerrafInv.clustering_fuentes *)

\* The largest number of Source Estimates clustered.
MaxEst == 3

\* coords = soluciones_euler[['x0', 'y0', 'z0']].values
Coords(frame) ==
    [r \in 1..Len(frame.rows) |-> <<frame.rows[r].x0, frame.rows[r].y0, frame.rows[r].z0>>]

Sq(a) == FMul(a, a)

\* The square of the Euclidean distance pdist computes between two rows.
Dist2(p, q) == FAdd(FAdd(Sq(FSub(p[1], q[1])), Sq(FSub(p[2], q[2]))), Sq(FSub(p[3], q[3])))

\* The largest of a non-empty set of finite values.
FMaxOf(S) == CHOOSE a \in S : \A b \in S : FLe(b, a)

FMinOf(S) == CHOOSE a \in S : \A b \in S : FLe(a, b)

\* Mutant: single linkage, the distance of the closest members.
LinkageDist2_Single(coords, A, B) ==
    FMinOf({Dist2(coords[a], coords[b]) : a \in A, b \in B})

\* method='complete': the distance of two clusters is that of their farthest members.
LinkageDist2(coords, A, B) ==
    FMaxOf({Dist2(coords[a], coords[b]) : a \in A, b \in B})

GroupPairs(groups) == {pr \in groups \X groups : pr[1] # pr[2]}

\* criterion='distance' with threshold t: a merge at height d belongs to a flat
\* cluster iff d <= t (compared on the squares, both sides being non-negative).
WithinThreshold(d2, t) == FGe(t, Q(0)) /\ FLe(d2, Sq(t))

\* The pairs linkage may merge next: those at the smallest linkage distance.
ClosestPairs(coords, groups) ==
    {pr \in GroupPairs(groups) :
        \A other \in GroupPairs(groups) :
            FLe(LinkageDist2(coords, pr[1], pr[2]), LinkageDist2(coords, other[1], other[2]))}

\* Mutant: the mask of a cluster takes every id up to cluster_id.
ClusterMask_UpTo(labels, cluster_id) == [r \in 1..Len(labels) |-> labels[r] <= cluster_id]

\* mask = clusters == cluster_id
ClusterMask(labels, cluster_id) == [r \in 1..Len(labels) |-> labels[r] = cluster_id]

\* soluciones_euler.loc[mask, col].mean()
MaskedMean(values, mask) ==
    LET keep == TruePositions(mask)
    IN FDiv(FSum([c \in 1..Len(keep) |-> values[keep[c]]]), Q(Len(keep)))

\* The dict built for one cluster id (lines 475-481).
Centroide(frame, labels, cluster_id) ==
    LET mask == ClusterMask(labels, cluster_id)
    IN [x0 |-> MaskedMean([r \in 1..Len(frame.rows) |-> frame.rows[r].x0], mask),
        y0 |-> MaskedMean([r \in 1..Len(frame.rows) |-> frame.rows[r].y0], mask),
        z0 |-> MaskedMean([r \in 1..Len(frame.rows) |-> frame.rows[r].z0], mask),
        n_solutions |-> Len(TruePositions(mask))]

\* The estimates the tables are drawn from: three in a row one unit apart, one
\* three units below the first, and the radii tried.
ClusterPoints == {<<0, 0, 10>>, <<1, 0, 10>>, <<2, 0, 10>>, <<0, 0, 13>>}

ClusterRadii == {Q(1), Q(2), Q(3)}

PointFrame(points) ==
    [columns |-> EulerColumns,
     index |-> [c \in 1..Len(points) |-> c - 1],
     rows |-> [c \in 1..Len(points) |->
                 [x0 |-> Q(points[c][1]), y0 |-> Q(points[c][2]), z0 |-> Q(points[c][3]),
                  base_level |-> Q(0), residual |-> Q(0), n_points |-> 5]]]

ClusterStart ==
    /\ \E n \in 1..MaxEst, radio \in ClusterRadii :
          \E points \in [1..n -> ClusterPoints] :
              cl_args = [soluciones_euler |-> PointFrame(points), radio |-> radio]
    /\ cl_pc = "start"
    /\ cl_groups = {}
    /\ clusters = <<>>
    /\ cl_ids = <<>>
    /\ centroides = <<>>

ClusterIdle ==
    /\ cl_args = [soluciones_euler |-> NoFrame, radio |-> Q(100)]
    /\ cl_pc = "idle"
    /\ cl_groups = {}
    /\ clusters = <<>>
    /\ cl_ids = <<>>
    /\ centroides = <<>>

\* fclusterdata starts: pdist of fewer than two rows is empty and linkage raises
\* ValueError on it; otherwise every row is a cluster of its own.
ClusterBegin ==
    /\ cl_pc = "start"
    /\ IF Len(cl_args.soluciones_euler.rows) < 2
       THEN cl_pc' = "raised" /\ cl_groups' = {}
       ELSE /\ cl_pc' = "linkage"
            /\ cl_groups' = {{r} : r \in 1..Len(cl_args.soluciones_euler.rows)}
    /\ UNCHANGED <<cl_args, clusters, cl_ids, centroides>>

\* One merge of the linkage that the distance criterion keeps.
ClusterMerge ==
    /\ cl_pc = "linkage"
    /\ \E pr \in ClosestPairs(Coords(cl_args.soluciones_euler), cl_groups) :
          /\ WithinThreshold(LinkageDist2(Coords(cl_args.soluciones_euler), pr[1], pr[2]),
                             cl_args.radio)
          /\ cl_groups' = (cl_groups \ {pr[1], pr[2]}) \cup {pr[1] \cup pr[2]}
    /\ UNCHANGED <<cl_args, cl_pc, clusters, cl_ids, centroides>>

\* No merge is left below the threshold: fcluster numbers the flat clusters 1..k (in
\* an order of its own) and np.unique(clusters) lists the ids in increasing order.
ClusterLabel ==
    /\ cl_pc = "linkage"
    /\ \A pr \in ClosestPairs(Coords(cl_args.soluciones_euler), cl_groups) :
          ~WithinThreshold(LinkageDist2(Coords(cl_args.soluciones_euler), pr[1], pr[2]),
                           cl_args.radio)
    /\ \E number \in [cl_groups -> 1..Cardinality(cl_groups)] :
          /\ \A g1, g2 \in cl_groups : number[g1] = number[g2] => g1 = g2
          /\ clusters' = [r \in 1..Len(cl_args.soluciones_euler.rows) |->
                            number[CHOOSE g \in cl_groups : r \in g]]
    /\ cl_ids' = [c \in 1..Cardinality(cl_groups) |-> c]
    /\ cl_pc' = "labelled"
    /\ UNCHANGED <<cl_args, cl_groups, centroides>>

\* for cluster_id in np.unique(clusters): one iteration.
ClusterCentroid ==
    /\ cl_pc = "labelled"
    /\ cl_ids # <<>>
    /\ centroides' = Append(centroides,
                            Centroide(cl_args.soluciones_euler, clusters, Head(cl_ids)))
    /\ cl_ids' = Tail(cl_ids)
    /\ UNCHANGED <<cl_args, cl_pc, cl_groups, clusters>>

\* return pd.DataFrame(centroides)
ClusterReturn ==
    /\ cl_pc = "labelled"
    /\ cl_ids = <<>>
    /\ cl_pc' = "done"
    /\ UNCHANGED <<cl_args, cl_groups, clusters, cl_ids, centroides>>

ClusterNext == ClusterBegin \/ ClusterMerge \/ ClusterLabel \/ ClusterCentroid \/ ClusterReturn

-----------------------------------------------------------------------------
(* TerrafInv.forward_magnetic_sphere and forward_magnetic_prism *)

(***************************************************************************)
(* The forward model leaves the rationals: radii are cube roots, volumes   *)
(* carry pi, and the response divides by r^3 with r a square root. These   *)
(* values are kept exact in symbolic form:                                 *)
(*   - [q, e] stands for q * pi^e (q rational),                            *)
(*   - [k |-> "cbrt", of |-> [q, e]] for its cube root,                    *)
(*   - an anomaly is a sum of terms q * pi^e / r2^(3/2), one term for      *)
(*     every distinct (r2, e), written as a set of [r2, e, q] records.     *)
(***************************************************************************)

\* The most observation points of one call.
MaxObs == 2

\* mu_0 * 1e9 / (4 * pi) with mu_0 = 4 * pi * 1e-7 (lines 167-168).
FACTOR_NT == 100

\* nx, ny, nz = 3, 3, 3 (line 194)
N_SUB == 3

PiNum(q, e) == [q |-> q, e |-> e]

Cbrt(p) == [k |-> "cbrt", of |-> p]

\* radius**3 for a radius that is a cube root or a plain number.
Cube(radius) ==
    IF radius.k = "cbrt" THEN radius.of ELSE PiNum(FMul(radius, FMul(radius, radius)), 0)

\* V = (4/3) * np.pi * radius**3
SphereVolume(radius) == PiNum(FMul(Rat(4, 3), Cube(radius).q), Cube(radius).e + 1)

\* The anomaly q * pi^e / r2^(3/2); nothing when q = 0.
Term(r2, e, q) == IF q = Q(0) THEN {} ELSE {[r2 |-> r2, e |-> e, q |-> q]}

CoefOf(S, r2, e) ==
    IF \E t \in S : t.r2 = r2 /\ t.e = e
    THEN (CHOOSE t \in S : t.r2 = r2 /\ t.e = e).q
    ELSE Q(0)

\* The sum of two anomalies.
SymAdd(S1, S2) ==
    UNION {Term(key[1], key[2], FAdd(CoefOf(S1, key[1], key[2]), CoefOf(S2, key[1], key[2]))) :
              key \in {<<t.r2, t.e>> : t \in S1 \cup S2}}

\* forward_magnetic_sphere at one observation point. The magnetization vector
\* Mx, My, Mz of lines 138-144 is computed from inclination and declination and
\* never read, so the two angles do not enter the result.
SphereAt(xo, yo, zo, x_src, y_src, z_src, radius, susceptibility) ==
    LET dx == FSub(xo, x_src)
        dy == FSub(yo, y_src)
        dz == FSub(zo, z_src)
        d2 == FAdd(FAdd(Sq(dx), Sq(dy)), Sq(dz))
        \* r = np.maximum(np.sqrt(...), 1.0), carried as r^2
        r2 == IF FLt(d2, Q(1)) THEN Q(1) ELSE d2
        V == SphereVolume(radius)
        m == FMul(V.q, susceptibility)
        \* 3 * cos_theta**2 - 1 with cos_theta = dz / r
        shape == FSub(FMul(Q(3), FDiv(Sq(dz), r2)), Q(1))
    IN Term(r2, V.e, FMul(FMul(Q(FACTOR_NT), m), shape))

\* Mutant: the moment of the sphere is taken from the vertical magnetization
\* Mz = susceptibility * sin(inclination).
forward_magnetic_sphere_Directed(x_obs, y_obs, z_obs, x_src, y_src, z_src, radius, susceptibility, inclination, declination) ==
    LET Mz == IF inclination = 90 THEN susceptibility
              ELSE IF inclination = 30 THEN FMul(susceptibility, Rat(1, 2))
              ELSE IF inclination = 0 THEN Q(0)
              ELSE FMul(susceptibility, Rat(7, 10))
    IN [c \in 1..Len(x_obs) |->
           SphereAt(x_obs[c], y_obs[c], z_obs[c], x_src, y_src, z_src, radius, Mz)]

forward_magnetic_sphere(x_obs, y_obs, z_obs, x_src, y_src, z_src, radius, susceptibility, inclination, declination) ==
    [c \in 1..Len(x_obs) |->
        SphereAt(x_obs[c], y_obs[c], z_obs[c], x_src, y_src, z_src, radius, susceptibility)]

\* np.linspace(a, b, num); a single point is a.
Linspace(a, b, num) ==
    [c \in 1..num |->
        IF num = 1 THEN a ELSE FAdd(a, FMul(Q(c - 1), FDiv(FSub(b, a), Q(num - 1))))]

\* Mutant: the volume of a slab, the division by nz forgotten.
SubVolume_NoNz(pp) ==
    FMul(FMul(FDiv(FSub(pp.x2, pp.x1), Q(N_SUB)), FDiv(FSub(pp.y2, pp.y1), Q(N_SUB))),
         FSub(pp.z2, pp.z1))

\* dV = ((x2-x1)/nx) * ((y2-y1)/ny) * ((z2-z1)/nz)
SubVolume(pp) ==
    FMul(FMul(FDiv(FSub(pp.x2, pp.x1), Q(N_SUB)), FDiv(FSub(pp.y2, pp.y1), Q(N_SUB))),
         FDiv(FSub(pp.z2, pp.z1), Q(N_SUB)))

\* r_equiv = (3 * dV / (4 * np.pi))**(1/3)
EquivalentRadius(dV) == Cbrt(PiNum(FDiv(FMul(Q(3), dV), Q(4)), -1))

\* The next position of the three nested loops, <<>> after the last one.
NextLoop(pos) ==
    IF pos[3] < N_SUB THEN <<pos[1], pos[2], pos[3] + 1>>
    ELSE IF pos[2] < N_SUB THEN <<pos[1], pos[2] + 1, 1>>
    ELSE IF pos[1] < N_SUB THEN <<pos[1] + 1, 1, 1>>
    ELSE <<>>

\* The observation points and prisms the calls are drawn from. The first
\* observation point coincides with a corner of the prisms that start at depth 0.
ObsPoints == {<<0, 0, 0>>, <<1, 1, 0>>, <<3, 0, 0>>}

Prisms ==
    {[x1 |-> Q(0), x2 |-> Q(x2), y1 |-> Q(0), y2 |-> Q(2), z1 |-> Q(z1), z2 |-> Q(z1 + 2)] :
        x2 \in {2, 3}, z1 \in {0, 1}}

PrismStart ==
    /\ \E n \in 1..MaxObs, pp \in Prisms, chi \in {Q(1), Rat(1, 20)} :
          \E obs \in [1..n -> ObsPoints] :
              pr_args = [x_obs |-> [c \in 1..n |-> Q(obs[c][1])],
                         y_obs |-> [c \in 1..n |-> Q(obs[c][2])],
                         z_obs |-> [c \in 1..n |-> Q(obs[c][3])],
                         prism_params |-> pp, susceptibility |-> chi,
                         inclination |-> 45, declination |-> 0]
    \* anomaly_total = np.zeros_like(x_obs)
    /\ anomaly_total = [c \in 1..Len(pr_args.x_obs) |-> {}]
    /\ pr_loop = <<1, 1, 1>>
    /\ pr_pc = "loop"

\* The field directions (inclination, declination) in degrees of the calls
\* that are compared across directions.
FieldDirections == {<<90, 0>>, <<30, 0>>, <<30, 90>>, <<0, 0>>}

\* Calls of forward_magnetic_prism under each of those directions.
PrismDirectionsStart ==
    /\ \E n \in 1..MaxObs, pp \in Prisms, d \in FieldDirections :
          \E obs \in [1..n -> {<<0, 0, 0>>, <<3, 0, 0>>}] :
              pr_args = [x_obs |-> [c \in 1..n |-> Q(obs[c][1])],
                         y_obs |-> [c \in 1..n |-> Q(obs[c][2])],
                         z_obs |-> [c \in 1..n |-> Q(obs[c][3])],
                         prism_params |-> pp, susceptibility |-> Q(1),
                         inclination |-> d[1], declination |-> d[2]]
    /\ anomaly_total = [c \in 1..Len(pr_args.x_obs) |-> {}]
    /\ pr_loop = <<1, 1, 1>>
    /\ pr_pc = "loop"

PrismIdle ==
    /\ pr_args = [x_obs |-> <<>>, y_obs |-> <<>>, z_obs |-> <<>>,
                  prism_params |-> [x1 |-> Q(0), x2 |-> Q(0), y1 |-> Q(0), y2 |-> Q(0),
                                    z1 |-> Q(0), z2 |-> Q(0)],
                  susceptibility |-> Q(0), inclination |-> 45, declination |-> 0]
    /\ anomaly_total = <<>>
    /\ pr_loop = <<>>
    /\ pr_pc = "idle"

\* One pass of the innermost loop body (lines 207-213).
PrismSubSource ==
    /\ pr_pc = "loop"
    /\ pr_loop # <<>>
    /\ LET pp == pr_args.prism_params
           x_grid == Linspace(pp.x1, pp.x2, N_SUB)
           y_grid == Linspace(pp.y1, pp.y2, N_SUB)
           z_grid == Linspace(pp.z1, pp.z2, N_SUB)
           r_equiv == EquivalentRadius(SubVolume(pp))
           anomaly == forward_magnetic_sphere(pr_args.x_obs, pr_args.y_obs, pr_args.z_obs,
                          x_grid[pr_loop[1]], y_grid[pr_loop[2]], z_grid[pr_loop[3]],
                          r_equiv, pr_args.susceptibility,
                          pr_args.inclination, pr_args.declination)
       IN anomaly_total' = [c \in 1..Len(anomaly_total) |->
                               SymAdd(anomaly_total[c], anomaly[c])]
    /\ pr_loop' = NextLoop(pr_loop)
    /\ UNCHANGED <<pr_args, pr_pc>>

\* return anomaly_total
PrismReturn ==
    /\ pr_pc = "loop"
    /\ pr_loop = <<>>
    /\ pr_pc' = "done"
    /\ UNCHANGED <<pr_args, pr_loop, anomaly_total>>

PrismNext == PrismSubSource \/ PrismReturn

-----------------------------------------------------------------------------
(* TerrafMag.calcular_residual_grid *)

\* The most missing cells of a grid that still has data.
MaxNaN == 2

\* grid_mag.shape
ShapeOf(grid) == <<Len(grid), IF grid = <<>> THEN 0 ELSE Len(grid[1])>>

\* The cells of a grid in flattening (row-major) order, as <<row, column>>.
RECURSIVE Cells(_, _)
Cells(ny, nx) ==
    IF ny = 0 THEN <<>>
    ELSE Cells(ny - 1, nx) \o [c \in 1..nx |-> <<ny, c>>]

\* X, Y = np.meshgrid(x_norm, y_norm), flattened: the <<x, y>> of every cell.
MeshPoints(ny, nx) ==
    LET x_norm == Linspace(Q(0), Q(1), nx)
        y_norm == Linspace(Q(0), Q(1), ny)
        cells == Cells(ny, nx)
    IN [k \in 1..Len(cells) |-> <<x_norm[cells[k][2]], y_norm[cells[k][1]]>>]

\* Mutant: every cell taken as valid.
ValidMask_All(grid) == [r \in 1..Len(grid) |-> [c \in 1..Len(grid[r]) |-> TRUE]]

\* mask = ~np.isnan(grid_mag)
ValidMask(grid) == [r \in 1..Len(grid) |-> [c \in 1..Len(grid[r]) |-> ~IsNaN(grid[r][c])]]

\* The positions, in flattening order, of the cells the mask selects.
MaskedPositions(grid) ==
    LET cells == Cells(ShapeOf(grid)[1], ShapeOf(grid)[2])
        mask == ValidMask(grid)
    IN TruePositions([k \in 1..Len(cells) |-> mask[cells[k][1]][cells[k][2]]])

\* One row of the design matrix, by degree (lines 708-738 and 746-773).
DesignRow(x, y, grado) ==
    IF grado = 1 THEN <<Q(1), x, y>>
    ELSE IF grado = 2 THEN <<Q(1), x, y, FMul(x, x), FMul(x, y), FMul(y, y)>>
    ELSE <<Q(1), x, y, FMul(x, x), FMul(x, y), FMul(y, y),
           FMul(FMul(x, x), x), FMul(FMul(x, x), y), FMul(x, FMul(y, y)), FMul(FMul(y, y), y)>>

GradoSupported(grado) == grado \in {1, 2, 3}

DesignMatrix(points, grado) ==
    [k \in 1..Len(points) |-> DesignRow(points[k][1], points[k][2], grado)]

\* A matrix with no rows still has its columns for np.linalg.lstsq.
NumColumns(grado) == Len(DesignRow(Q(0), Q(0), grado))

\* The fields the grids are sampled from, at row r and column c.
GridFields == {"flat", "plane", "peak"}

FieldValue(field, r, c) ==
    IF field = "flat" THEN Q(2)
    ELSE IF field = "plane" THEN Q(r + 2 * c)
    ELSE IF r = 1 /\ c = 1 THEN Q(5) ELSE Q(0)

GridShapes == {<<1, 1>>, <<1, 3>>, <<2, 2>>, <<2, 3>>}

\* The grids of the calls: a field sampled on a shape, with some cells missing
\* (none, up to MaxNaN of them, or all).
Grids ==
    {[r \in 1..shape[1] |-> [c \in 1..shape[2] |->
          IF <<r, c>> \in missing THEN NaN ELSE FieldValue(field, r, c)]] :
        shape \in GridShapes, field \in GridFields,
        missing \in {m \in SUBSET ((1..2) \X (1..3)) : Cardinality(m) <= MaxNaN}
                    \cup {(1..2) \X (1..3)}}

ResidualGridStart ==
    /\ \E grid \in Grids, grado \in 1..4 : rg_args = [grid_mag |-> grid, grado |-> grado]
    /\ rg_pc = "start"
    /\ X_matrix = <<>>
    /\ coeffs = <<>>
    /\ regional = <<>>
    /\ residual = <<>>

ResidualGridIdle ==
    /\ rg_args = [grid_mag |-> <<>>, grado |-> 2]
    /\ rg_pc = "idle"
    /\ X_matrix = <<>>
    /\ coeffs = <<>>
    /\ regional = <<>>
    /\ residual = <<>>

\* Lines 696-743: the valid points, the design matrix and the fit.
ResidualGridFit ==
    /\ rg_pc = "start"
    /\ GradoSupported(rg_args.grado)
    /\ LET grid == rg_args.grid_mag
           points == MeshPoints(ShapeOf(grid)[1], ShapeOf(grid)[2])
           cells == Cells(ShapeOf(grid)[1], ShapeOf(grid)[2])
           valid == MaskedPositions(grid)
           xy_valid == [k \in 1..Len(valid) |-> points[valid[k]]]
           z_valid == [k \in 1..Len(valid) |-> grid[cells[valid[k]][1]][cells[valid[k]][2]]]
           design == DesignMatrix(xy_valid, rg_args.grado)
       IN /\ X_matrix' = design
          /\ \E out \in LstsqOutcomes(design, z_valid, NumColumns(rg_args.grado)) :
                /\ rg_pc' = IF out.raised THEN "raised" ELSE "fitted"
                /\ coeffs' = out.sol
    /\ UNCHANGED <<rg_args, regional, residual>>

\* Line 740: raise ValueError(f"Grado {grado} no soportado")
ResidualGridUnsupported ==
    /\ rg_pc = "start"
    /\ ~GradoSupported(rg_args.grado)
    /\ rg_pc' = "raised"
    /\ UNCHANGED <<rg_args, X_matrix, coeffs, regional, residual>>

\* Lines 746-778: the trend over the whole grid, the residual, the return.
ResidualGridEvaluate ==
    /\ rg_pc = "fitted"
    /\ LET grid == rg_args.grid_mag
           ny == ShapeOf(grid)[1]
           nx == ShapeOf(grid)[2]
           X_grid == DesignMatrix(MeshPoints(ny, nx), rg_args.grado)
           flat == MatVec(X_grid, coeffs)
           reshaped == [r \in 1..ny |-> [c \in 1..nx |-> flat[(r - 1) * nx + c]]]
       IN /\ regional' = reshaped
          /\ residual' = [r \in 1..ny |-> [c \in 1..nx |-> FSub(grid[r][c], reshaped[r][c])]]
    /\ rg_pc' = "done"
    /\ UNCHANGED <<rg_args, X_matrix, coeffs>>

ResidualGridNext == ResidualGridFit \/ ResidualGridUnsupported \/ ResidualGridEvaluate

-----------------------------------------------------------------------------
(* TerrafMag: construction, loading, calcular_anomalia_residual *)

\* The most records of a dataset.
MaxSamples == 3

None == [k |-> "None"]

Array(v) == [k |-> "ndarray", v |-> v]

\* The column names of the datasets, with the outcome of the substring tests of
\* _detectar_columnas on their lower-case form.
HasKeyword(col) == col \in {"TMI", "RANGO_CODE", "FID_campo"}

IsExcluded(col) == col \in {"OBJECTID", "FID_campo"}

\* The k-th value of a measured series.
SeriesValue(series, k) ==
    IF series = "ramp" THEN Q(2 * k)
    ELSE IF k = 2 THEN Q(9) ELSE Q(1)

\* The k-th centroid of a point dataset: (0,0), (1,0), (0,1), (1,1), ...
CentroidOf(k) == <<Q((k - 1) % 2), Q((k - 1) \div 2)>>

Column(name, dtype, values) == [name |-> name, dtype |-> dtype, values |-> values]

\* The datasets: a table without geometry and a field column, a point layer with an
\* identifier and a field column, and a table with no field column at all.
Frames ==
    UNION {{[geometry |-> <<>>, has_geometry |-> FALSE,
             columns |-> <<Column("TMI", "float64", [k \in 1..n |-> SeriesValue(series, k)])>>],
            [geometry |-> [k \in 1..n |-> CentroidOf(k)], has_geometry |-> TRUE,
             columns |-> <<Column("OBJECTID", "int64", [k \in 1..n |-> Q(k)]),
                           Column("FID_campo", "int64", [k \in 1..n |-> Q(k)]),
                           Column("RANGO_CODE", "float64",
                                  [k \in 1..n |-> SeriesValue(series, k)])>>],
            [geometry |-> <<>>, has_geometry |-> FALSE,
             columns |-> <<Column("elev", "float64", [k \in 1..n |-> SeriesValue(series, k)]),
                           Column("TMI", "object", [k \in 1..n |-> Q(0)])>>]} :
           n \in 1..MaxSamples, series \in {"ramp", "spike"}}

NumericTypes == {"float64", "float32", "int64", "int32"}

\* The positions of the columns _detectar_columnas accepts (lines 113-121).
FieldColumns(frame) ==
    {c \in 1..Len(frame.columns) :
        /\ ~IsExcluded(frame.columns[c].name)
        /\ HasKeyword(frame.columns[c].name)
        /\ frame.columns[c].dtype \in NumericTypes}

\* campo_total after _detectar_columnas: the first accepted column, else unchanged.
DetectedField(frame, current) ==
    IF frame = None \/ FieldColumns(frame) = {} THEN current
    ELSE Array(frame.columns[MinOf(FieldColumns(frame))].values)

\* The files cargar_datos is called on: what reading them gives.
Files ==
    {[ruta |-> "datos.txt", ext |-> "", content |-> None]}
    \cup {[ruta |-> "faltante.csv", ext |-> ".csv", content |-> None]}
    \cup {[ruta |-> "campo.csv", ext |-> ".csv", content |-> f] : f \in {g \in Frames : ~g.has_geometry}}
    \cup {[ruta |-> "puntos.shp", ext |-> ".shp", content |-> f] : f \in {g \in Frames : g.has_geometry}}

NoCall == [op |-> "", raised |-> ""]

\* The most analysis operations called on one instance.
MaxCalls == 2

\* A dictionary without keys.
EmptyDict == [key \in {} |-> None]

\* d[key] = value
SetItem(d, key, value) ==
    [j \in DOMAIN d \cup {key} |-> IF j = key THEN value ELSE d[j]]

\* Lines 61-70: the attributes of a new instance other than datos.
NewInstance ==
    /\ campo_total = None
    /\ anomalia = None
    /\ reduccion_polo = None
    /\ derivadas = EmptyDict
    /\ estadisticas = EmptyDict
    /\ coords_cache = None
    /\ bounds_cache = None
    /\ tm_calls = 0

\* What no loading step touches.
results_kept ==
    <<reduccion_polo, derivadas, estadisticas, coords_cache, bounds_cache, tm_calls>>

\* TerrafMag(dataframe=df) or TerrafMag(): lines 61-73.
TerrafMagStart ==
    /\ datos \in Frames \cup {None}
    /\ NewInstance
    /\ tm_ret = NoCall

TerrafMagIdle ==
    /\ datos = None
    /\ NewInstance
    /\ tm_ret = [op |-> "idle", raised |-> ""]

\* cargar_datos(ruta): lines 77-100.
cargar_datos ==
    /\ tm_ret.op # "idle"
    /\ \E file \in Files :
          IF file.ext = "" \/ file.content = None
          THEN \* ValueError for the format, or the reader's error, re-raised
               /\ tm_ret' = [op |-> "cargar_datos", raised |-> "Exception"]
               /\ UNCHANGED <<datos, campo_total>>
          ELSE /\ datos' = file.content
               /\ campo_total' = DetectedField(file.content, campo_total)
               /\ tm_ret' = [op |-> "cargar_datos", raised |-> ""]
    /\ UNCHANGED <<anomalia, results_kept>>

\* mag._detectar_columnas(), as the application calls it after construction.
detectar_columnas ==
    /\ tm_ret.op # "idle"
    /\ campo_total' = DetectedField(datos, campo_total)
    /\ tm_ret' = [op |-> "_detectar_columnas", raised |-> ""]
    /\ UNCHANGED <<datos, anomalia, results_kept>>

\* mag.campo_total = df[col].values, as the application does for a chosen
\* numeric column.
AsignarCampo ==
    /\ tm_ret.op # "idle"
    /\ datos # None
    /\ \E c \in 1..Len(datos.columns) :
          /\ datos.columns[c].dtype \in NumericTypes
          /\ campo_total' = Array(datos.columns[c].values)
    /\ tm_ret' = [op |-> "campo_total =", raised |-> ""]
    /\ UNCHANGED <<datos, anomalia, results_kept>>

\* x, y of lines 204-212: the centroids, or the indices with y = 0.
Coordenadas(frame, campo) ==
    IF frame.has_geometry
    THEN frame.geometry
    ELSE [k \in 1..Len(campo.v) |-> <<Q(k - 1), Q(0)>>]

\* A = np.column_stack([ones, x, y, x**2, x*y, y**2]) (lines 215-219)
PolynomialA(points) ==
    [k \in 1..Len(points) |->
        LET x == points[k][1]
            y == points[k][2]
        IN <<Q(1), x, y, FMul(x, x), FMul(x, y), FMul(y, y)>>]

\* Index j (from 0) of an array of n samples extended by reflection.
Reflect(j, n) ==
    LET t == j % (2 * n)
    IN IF t < n THEN t ELSE 2 * n - 1 - t

\* ndimage.uniform_filter1d(input, size): mean over size samples around each one,
\* mode='reflect'; a size below 1 is an error.
UniformFilter1d(input, size) ==
    IF size < 1 THEN [raised |-> "RuntimeError", v |-> <<>>]
    ELSE [raised |-> "",
          v |-> [c \in 1..Len(input) |->
                   FDiv(FSum([j \in 1..size |->
                                 input[Reflect((c - 1) + (j - 1) - (size \div 2), Len(input)) + 1]]),
                        Q(size))]]

AnomaliaCall(metodo, grado, raised, A) ==
    [op |-> "calcular_anomalia_residual", metodo |-> metodo, grado |-> grado,
     raised |-> raised, A |-> A]

\* calcular_anomalia_residual(metodo, grado): lines 188-237.
calcular_anomalia_residual ==
    /\ tm_ret.op # "idle"
    /\ tm_calls < MaxCalls
    /\ tm_calls' = tm_calls + 1
    /\ \E metodo \in {"polinomial", "media_movil", "upward_continuation"}, grado \in 1..3 :
          IF campo_total = None
          THEN /\ tm_ret' = AnomaliaCall(metodo, grado, "ValueError", <<>>)
               /\ UNCHANGED anomalia
          ELSE IF metodo = "polinomial"
          THEN IF datos = None
               THEN \* self.datos.columns on None
                    /\ tm_ret' = AnomaliaCall(metodo, grado, "AttributeError", <<>>)
                    /\ UNCHANGED anomalia
               ELSE LET A == PolynomialA(Coordenadas(datos, campo_total))
                    IN IF Len(A) # Len(campo_total.v)
                       THEN \* lstsq on incompatible dimensions
                            /\ tm_ret' = AnomaliaCall(metodo, grado, "LinAlgError", A)
                            /\ UNCHANGED anomalia
                       ELSE \E out \in LstsqOutcomes(A, campo_total.v, 6) :
                               IF out.raised
                               THEN /\ tm_ret' = AnomaliaCall(metodo, grado, "LinAlgError", A)
                                    /\ UNCHANGED anomalia
                               ELSE /\ anomalia' =
                                          Array([k \in 1..Len(A) |->
                                                    FSub(campo_total.v[k], Dot(A[k], out.sol))])
                                    /\ tm_ret' = AnomaliaCall(metodo, grado, "", A)
          ELSE IF metodo = "media_movil"
          THEN LET ventana == Len(campo_total.v) \div 10
                   campo_regional == UniformFilter1d(campo_total.v, ventana)
               IN IF campo_regional.raised # ""
                  THEN /\ tm_ret' = AnomaliaCall(metodo, grado, campo_regional.raised, <<>>)
                       /\ UNCHANGED anomalia
                  ELSE /\ anomalia' =
                             Array([k \in 1..Len(campo_total.v) |->
                                       FSub(campo_total.v[k], campo_regional.v[k])])
                       /\ tm_ret' = AnomaliaCall(metodo, grado, "", <<>>)
          ELSE /\ tm_ret' = AnomaliaCall(metodo, grado, "ValueError", <<>>)
               /\ UNCHANGED anomalia
    /\ UNCHANGED <<datos, campo_total, reduccion_polo, derivadas, estadisticas, coords_cache,
                   bounds_cache>>

TerrafMagNext == cargar_datos \/ detectar_columnas \/ AsignarCampo \/ calcular_anomalia_residual

-----------------------------------------------------------------------------
(* TerrafMag.calcular_derivadas_grid *)

\* The cell of the array at (r, c), or cval outside it (mode='constant').
CellOr(a, r, c, cval) ==
    IF r \in 1..Len(a) /\ c \in 1..Len(a[1]) THEN a[r][c] ELSE cval

\* Mutant: a filter that leaves out the samples of weight zero.
Correlate1d_SkipZero(a, w, axis, cval) ==
    [r \in 1..Len(a) |-> [c \in 1..Len(a[r]) |->
        LET before == IF axis = 0 THEN CellOr(a, r - 1, c, cval) ELSE CellOr(a, r, c - 1, cval)
            after == IF axis = 0 THEN CellOr(a, r + 1, c, cval) ELSE CellOr(a, r, c + 1, cval)
            centre == IF w[2] = Q(0) THEN Q(0) ELSE FMul(a[r][c], w[2])
        IN IF w[1] = w[3]
           THEN FAdd(centre, FMul(FAdd(before, after), w[1]))
           ELSE FAdd(centre, FMul(FSub(before, after), w[1]))]]

\* ndimage.correlate1d with three weights, symmetric or antisymmetric, along an
\* axis: the centre sample times its weight (a zero weight included) plus the
\* sum or difference of the neighbours times the first weight.
Correlate1d(a, w, axis, cval) ==
    [r \in 1..Len(a) |-> [c \in 1..Len(a[r]) |->
        LET before == IF axis = 0 THEN CellOr(a, r - 1, c, cval) ELSE CellOr(a, r, c - 1, cval)
            after == IF axis = 0 THEN CellOr(a, r + 1, c, cval) ELSE CellOr(a, r, c + 1, cval)
            centre == FMul(a[r][c], w[2])
        IN IF w[1] = w[3]
           THEN FAdd(centre, FMul(FAdd(before, after), w[1]))
           ELSE FAdd(centre, FMul(FSub(before, after), w[1]))]]

\* ndimage.sobel: the difference [-1, 0, 1] along the axis, then the smoothing
\* [1, 2, 1] along the other axis.
Sobel(a, axis, cval) ==
    Correlate1d(Correlate1d(a, <<Q(-1), Q(0), Q(1)>>, axis, cval),
                <<Q(1), Q(2), Q(1)>>, 1 - axis, cval)

\* ndimage.laplace: the second difference [1, -2, 1] along each axis, added.
Laplace(a, cval) ==
    LET d0 == Correlate1d(a, <<Q(1), Q(-2), Q(1)>>, 0, cval)
        d1 == Correlate1d(a, <<Q(1), Q(-2), Q(1)>>, 1, cval)
    IN [r \in 1..Len(a) |-> [c \in 1..Len(a[r]) |-> FAdd(d0[r][c], d1[r][c])]]

\* An operation applied cell by cell to one, two or three arrays.
Map1(Op(_), a) == [r \in 1..Len(a) |-> [c \in 1..Len(a[r]) |-> Op(a[r][c])]]

Map2(Op(_, _), a, b) == [r \in 1..Len(a) |-> [c \in 1..Len(a[r]) |-> Op(a[r][c], b[r][c])]]

\* The floor 1e-10 of line 671.
Tiny == [k |-> "tiny"]

\* THG < 1e-10 for a THG that is NaN, infinite or the root of a rational. A
\* positive rational of the model has a denominator below 2^31, so its root is
\* above 1e-10: only the root of zero is below the floor.
BelowTiny(thg) == thg.k = "sqrt" /\ thg.of.n = 0

\* Mutant: no floor.
FloorAtTiny_Off(thg) == thg

\* np.where(THG < 1e-10, 1e-10, THG)
FloorAtTiny(thg) == IF BelowTiny(thg) THEN Tiny ELSE thg

\* A value that is exactly zero, as a rational or as a root.
IsZero(v) == (v.k = "q" /\ v.n = 0) \/ (v.k = "sqrt" /\ v.of.n = 0)

\* np.arctan(num / den), kept symbolic; den is a root, the floor, NaN or infinite.
\* 0 / 0 is NaN; a non-zero number over zero is an infinity, whose arctan is
\* finite.
ArctanOfRatio(num, den) ==
    IF IsNaN(num) \/ IsNaN(den) \/ (IsInf(num) /\ IsInf(den)) THEN NaN
    ELSE IF IsZero(den) /\ IsZero(num) THEN NaN
    ELSE [k |-> "arctan", num |-> num, den |-> den]

\* np.degrees
Degrees(angle) == IF IsNaN(angle) THEN NaN ELSE [k |-> "degrees", of |-> angle]

\* np.sqrt(a**2 + b**2)
Hypot2(a, b) == FSqrt(FAdd(Sq(a), Sq(b)))

\* The grids of the calls: large enough to have cells whose whole neighbourhood
\* lies inside, with up to MaxNaN cells missing.
DerivShapes == {<<2, 3>>, <<3, 3>>, <<3, 6>>}

DerivGrids ==
    {[r \in 1..shape[1] |-> [c \in 1..shape[2] |->
          IF <<r, c>> \in missing THEN NaN ELSE FieldValue(field, r, c)]] :
        shape \in DerivShapes, field \in GridFields,
        missing \in {m \in SUBSET ((1..3) \X (1..6)) : Cardinality(m) <= MaxNaN}}

NoResults == [key \in {} |-> <<>>]

DerivadasStart ==
    /\ \E grid \in DerivGrids, spacing \in {<<25, 25>>, <<1, 2>>} :
          dv_args = [grid_mag |-> grid, dx |-> Q(spacing[1]), dy |-> Q(spacing[2])]
    /\ dv_pc = "horizontal"
    /\ results = NoResults

DerivadasIdle ==
    /\ dv_args = [grid_mag |-> <<>>, dx |-> Q(25), dy |-> Q(25)]
    /\ dv_pc = "idle"
    /\ results = NoResults

\* Lines 655-659: the horizontal derivatives.
DerivadasHorizontales ==
    /\ dv_pc = "horizontal"
    /\ LET dT_dx == Map1(LAMBDA v : FDiv(v, dv_args.dx), Sobel(dv_args.grid_mag, 1, NaN))
           dT_dy == Map1(LAMBDA v : FDiv(v, dv_args.dy), Sobel(dv_args.grid_mag, 0, NaN))
       IN results' = [dT_dx |-> dT_dx, dT_dy |-> dT_dy]
    /\ dv_pc' = "thg"
    /\ UNCHANGED dv_args

\* Lines 662-663: the total horizontal gradient.
DerivadasTHG ==
    /\ dv_pc = "thg"
    /\ results' = results @@ [THG |-> Map2(Hypot2, results.dT_dx, results.dT_dy)]
    /\ dv_pc' = "vertical"
    /\ UNCHANGED dv_args

\* Lines 666-668: the vertical derivative from the Laplacian.
DerivadasVertical ==
    /\ dv_pc = "vertical"
    /\ LET laplacian == Laplace(dv_args.grid_mag, NaN)
       IN results' = results @@ [dT_dz |-> Map1(LAMBDA v : FDiv(FNeg(v), Q(2)), laplacian)]
    /\ dv_pc' = "tilt"
    /\ UNCHANGED dv_args

\* Lines 671-675: the tilt angle, in radians and degrees.
DerivadasTilt ==
    /\ dv_pc = "tilt"
    /\ LET THG_safe == Map1(FloorAtTiny, results.THG)
           tilt_angle == Map2(ArctanOfRatio, results.dT_dz, THG_safe)
       IN results' = results @@ [tilt_angle |-> tilt_angle,
                                 tilt_angle_deg |-> Map1(Degrees, tilt_angle)]
    /\ dv_pc' = "signal"
    /\ UNCHANGED dv_args

\* Lines 678-681: the analytic signal, and the return.
DerivadasAnalyticSignal ==
    /\ dv_pc = "signal"
    /\ LET AS == [r \in 1..Len(results.dT_dx) |-> [c \in 1..Len(results.dT_dx[r]) |->
                    FSqrt(FAdd(FAdd(Sq(results.dT_dx[r][c]), Sq(results.dT_dy[r][c])),
                               Sq(results.dT_dz[r][c])))]]
       IN results' = results @@ [analytic_signal |-> AS]
    /\ dv_pc' = "done"
    /\ UNCHANGED dv_args

DerivadasNext ==
    \/ DerivadasHorizontales
    \/ DerivadasTHG
    \/ DerivadasVertical
    \/ DerivadasTilt
    \/ DerivadasAnalyticSignal

-----------------------------------------------------------------------------
(* terraf_utils.normalizar_array *)

\* The most cells of an array passed to normalizar_array.
MaxCells == 3

\* a != b on floating values: NaN differs from everything.
FNe(a, b) == IsNaN(a) \/ IsNaN(b) \/ a # b

\* The sequence in ascending order (finite entries).
RECURSIVE SortAscending(_)
SortAscending(v) ==
    IF v = <<>> THEN <<>>
    ELSE LET p == CHOOSE p \in 1..Len(v) : \A q \in 1..Len(v) : FLe(v[p], v[q])
         IN <<v[p]>> \o SortAscending([c \in 1..(Len(v) - 1) |-> IF c < p THEN v[c] ELSE v[c + 1]])

\* np.percentile(v, q) for a non-empty finite v: linear interpolation between
\* the two closest ranks.
Percentile(v, q) ==
    LET sorted == SortAscending(v)
        h == FMul(Rat(q, 100), Q(Len(v) - 1))
        lo == h.n \div h.d
        frac == FSub(h, Q(lo))
    IN IF lo + 1 >= Len(v) THEN sorted[lo + 1]
       ELSE FAdd(sorted[lo + 1], FMul(frac, FSub(sorted[lo + 2], sorted[lo + 1])))

\* np.clip(v, 0, 1)
Clip01(v) ==
    IF IsNaN(v) THEN NaN
    ELSE IF FLt(v, Q(0)) THEN Q(0)
    ELSE IF FGt(v, Q(1)) THEN Q(1)
    ELSE v

\* num / np.std(...), the standard deviation kept as the root of the variance.
OverStd(num, variance) ==
    IF IsNaN(num) THEN NaN
    ELSE IF IsInf(num) THEN num
    ELSE [k |-> "over_sqrt", num |-> num, of |-> variance]

\* Mutant: the extremes taken over every entry, NaN included.
ValidEntries_All(arr) == arr

\* arr_valido = arr[~np.isnan(arr) & ~np.isinf(arr)]
ValidEntries(arr) == SelectSeq(arr, IsFinite)

\* normalizar_array(arr, metodo, percentiles=(2, 98)): lines 276-296.
normalizar_array(arr, metodo) ==
    LET arr_valido == ValidEntries(arr)
        values == {arr_valido[c] : c \in 1..Len(arr_valido)}
    IN IF Len(arr_valido) = 0 THEN [raised |-> "", value |-> arr]
       ELSE IF metodo = "minmax"
       THEN LET vmin == IF \E v \in values : IsNaN(v) THEN NaN ELSE FMinOf(values)
                vmax == IF \E v \in values : IsNaN(v) THEN NaN ELSE FMaxOf(values)
            IN [raised |-> "",
                value |-> IF FNe(vmax, vmin)
                          THEN [c \in 1..Len(arr) |->
                                   FDiv(FSub(arr[c], vmin), FSub(vmax, vmin))]
                          ELSE [c \in 1..Len(arr) |-> FMul(arr[c], Q(0))]]
       ELSE IF metodo = "zscore"
       THEN LET mean == FDiv(FSum(arr_valido), Q(Len(arr_valido)))
                variance == FDiv(FSum([c \in 1..Len(arr_valido) |->
                                          Sq(FSub(arr_valido[c], mean))]),
                                 Q(Len(arr_valido)))
            IN [raised |-> "",
                value |-> IF FNe(variance, Q(0))
                          THEN [c \in 1..Len(arr) |-> OverStd(FSub(arr[c], mean), variance)]
                          ELSE [c \in 1..Len(arr) |-> FMul(arr[c], Q(0))]]
       ELSE IF metodo = "percentile"
       THEN LET p_low == Percentile(arr_valido, 2)
                p_high == Percentile(arr_valido, 98)
            IN [raised |-> "",
                value |-> [c \in 1..Len(arr) |->
                              Clip01(FDiv(FSub(arr[c], p_low), FSub(p_high, p_low)))]]
       ELSE [raised |-> "ValueError", value |-> <<>>]

\* The values of the cells of the arrays.
CellValues == {NaN, Inf(1), Q(0), Q(1), Q(3)}

NormalizarStart ==
    /\ \E n \in 1..MaxCells, metodo \in {"minmax", "zscore", "percentile", "otro"} :
          \E arr \in [1..n -> CellValues] : na_args = [arr |-> arr, metodo |-> metodo]
    /\ na_pc = "called"
    /\ arr_norm = <<>>

NormalizarIdle ==
    /\ na_args = [arr |-> <<>>, metodo |-> "minmax"]
    /\ na_pc = "idle"
    /\ arr_norm = <<>>

NormalizarReturn ==
    /\ na_pc = "called"
    /\ normalizar_array(na_args.arr, na_args.metodo).raised = ""
    /\ arr_norm' = normalizar_array(na_args.arr, na_args.metodo).value
    /\ na_pc' = "returned"
    /\ UNCHANGED na_args

\* raise ValueError(f"Método '{metodo}' no soportado")
NormalizarRaise ==
    /\ na_pc = "called"
    /\ normalizar_array(na_args.arr, na_args.metodo).raised # ""
    /\ na_pc' = "raised"
    /\ UNCHANGED <<na_args, arr_norm>>

NormalizarNext == NormalizarReturn \/ NormalizarRaise

-----------------------------------------------------------------------------
(* TerrafInv.inversion_conjunta *)

\* The most indicator layers of one call.
MaxIndices == 2

\* np.nanmin and np.nanmax: over the cells that are not NaN; NaN when there is none.
NanMin(grid) ==
    LET values == {grid[c] : c \in {d \in 1..Len(grid) : ~IsNaN(grid[d])}}
    IN IF values = {} THEN NaN ELSE FMinOf(values)

NanMax(grid) ==
    LET values == {grid[c] : c \in {d \in 1..Len(grid) : ~IsNaN(grid[d])}}
    IN IF values = {} THEN NaN ELSE FMaxOf(values)

\* (grid - np.nanmin(grid)) / (np.nanmax(grid) - np.nanmin(grid)): lines 384, 395, 406.
NanMinMax(grid) ==
    [c \in 1..Len(grid) |->
        FDiv(FSub(grid[c], NanMin(grid)), FSub(NanMax(grid), NanMin(grid)))]

\* The layers griddata returns on the common grid, a few cells of it in
\* flattening order: NaN outside the hull of the points.
Layers ==
    {<<NaN, NaN, NaN>>, <<Q(2), Q(2), Q(2)>>, <<Q(0), Q(1), Q(3)>>,
     <<NaN, Q(1), Q(3)>>, <<Q(3), Q(1), NaN>>, <<Q(5), NaN, Q(5)>>}

Weights ==
    {[mag |-> Rat(1, 2), spec |-> Rat(1, 2)], [mag |-> Rat(7, 10), spec |-> Rat(3, 10)],
     [mag |-> Rat(3, 10), spec |-> Rat(7, 10)]}

\* Mutant: the indicator sum left undivided.
IndicatorMean_Sum(sum, n) == sum

\* if n_indices > 0: spec_combined /= n_indices
IndicatorMean(sum, n) ==
    IF n > 0 THEN [c \in 1..Len(sum) |-> FDiv(sum[c], Q(n))] ELSE sum

ConjuntaStart ==
    /\ \E mag_grid \in Layers, n \in 0..MaxIndices, weights \in Weights :
          \E idx_grids \in [1..n -> Layers] :
              jc_args = [mag_grid |-> mag_grid, idx_grids |-> idx_grids, weights |-> weights]
    /\ jc_pc = "mag"
    /\ jc_i = 0
    /\ mag_norm = <<>>
    /\ spec_combined = <<>>
    /\ n_indices = 0
    /\ prospectivity = <<>>
    /\ jc_trace = <<>>

ConjuntaIdle ==
    /\ jc_args = [mag_grid |-> <<>>, idx_grids |-> <<>>,
                  weights |-> [mag |-> Rat(1, 2), spec |-> Rat(1, 2)]]
    /\ jc_pc = "idle"
    /\ jc_i = 0
    /\ mag_norm = <<>>
    /\ spec_combined = <<>>
    /\ n_indices = 0
    /\ prospectivity = <<>>
    /\ jc_trace = <<>>

Normalized(grid, norm) == [of |-> grid, norm |-> norm]

\* Lines 381-388: the magnetic layer normalized, the indicator sum set to zero.
ConjuntaMag ==
    /\ jc_pc = "mag"
    /\ mag_norm' = NanMinMax(jc_args.mag_grid)
    /\ spec_combined' = [c \in 1..Len(jc_args.mag_grid) |-> Q(0)]
    /\ n_indices' = 0
    /\ jc_trace' = Append(jc_trace, Normalized(jc_args.mag_grid, NanMinMax(jc_args.mag_grid)))
    /\ jc_pc' = "indices"
    /\ UNCHANGED <<jc_args, jc_i, prospectivity>>

\* Lines 390-397: one indicator layer that is not entirely NaN.
ConjuntaIndex ==
    /\ jc_pc = "indices"
    /\ jc_i < Len(jc_args.idx_grids)
    /\ LET idx_grid == jc_args.idx_grids[jc_i + 1]
           idx_norm == NanMinMax(idx_grid)
       IN /\ ~(\A c \in 1..Len(idx_grid) : IsNaN(idx_grid[c]))
          /\ spec_combined' = [c \in 1..Len(spec_combined) |->
                                  FAdd(spec_combined[c], idx_norm[c])]
          /\ jc_trace' = Append(jc_trace, Normalized(idx_grid, idx_norm))
    /\ n_indices' = n_indices + 1
    /\ jc_i' = jc_i + 1
    /\ UNCHANGED <<jc_args, jc_pc, mag_norm, prospectivity>>

\* Lines 390-393: an indicator layer that is entirely NaN is left out.
ConjuntaIndexSkip ==
    /\ jc_pc = "indices"
    /\ jc_i < Len(jc_args.idx_grids)
    /\ \A c \in 1..Len(jc_args.idx_grids[jc_i + 1]) : IsNaN(jc_args.idx_grids[jc_i + 1][c])
    /\ jc_i' = jc_i + 1
    /\ UNCHANGED <<jc_args, jc_pc, mag_norm, spec_combined, n_indices, prospectivity, jc_trace>>

\* Lines 399-419: the mean of the indicators, the weighted sum, its
\* normalization and the return.
ConjuntaCombine ==
    /\ jc_pc = "indices"
    /\ jc_i = Len(jc_args.idx_grids)
    /\ LET mean == IndicatorMean(spec_combined, n_indices)
           weighted == [c \in 1..Len(mean) |->
                           FAdd(FMul(jc_args.weights.mag, mag_norm[c]),
                                FMul(jc_args.weights.spec, mean[c]))]
       IN /\ spec_combined' = mean
          /\ prospectivity' = NanMinMax(weighted)
          /\ jc_trace' = Append(jc_trace, Normalized(weighted, NanMinMax(weighted)))
    /\ jc_pc' = "done"
    /\ UNCHANGED <<jc_args, jc_i, mag_norm, n_indices>>

ConjuntaNext == ConjuntaMag \/ ConjuntaIndex \/ ConjuntaIndexSkip \/ ConjuntaCombine

-----------------------------------------------------------------------------
(* TerrafInv.inversion_susceptibility_3d *)

(***************************************************************************)
(* The kernel is built with forward_magnetic_sphere, so its entries are    *)
(* anomalies in the symbolic form above. The equivalent radius makes the   *)
(* sphere volume equal to the cell volume, which cancels pi. The normal    *)
(* equations are solved in exact arithmetic; the calls are drawn from      *)
(* observation lines and meshes whose distances are whole numbers, so that *)
(* every entry of the kernel is a rational number.                         *)
(***************************************************************************)

\* The largest s in lo..hi with s * s <= n, by bisection (lo * lo <= n).
RECURSIVE FloorRoot(_, _, _)
FloorRoot(n, lo, hi) ==
    IF lo = hi THEN lo
    ELSE LET mid == (lo + hi + 1) \div 2
         IN IF mid * mid <= n THEN FloorRoot(n, mid, hi) ELSE FloorRoot(n, lo, mid - 1)

\* The whole roots of n: one for a perfect square, none otherwise (roots stay
\* below 46341, whose square is the first above 2^31).
Roots(n) ==
    LET s == FloorRoot(n, 0, IF n < 46340 THEN n ELSE 46340)
    IN IF s * s = n THEN {s} ELSE {}

\* The whole root of a perfect square.
ISqrt(n) == CHOOSE s \in Roots(n) : TRUE

\* r**3 for r = sqrt(r2), r2 the square of a rational.
RCubed(r2) ==
    LET r == Rat(ISqrt(r2.n), ISqrt(r2.d))
    IN FMul(r, FMul(r, r))

\* The number an anomaly without pi stands for.
RECURSIVE Realize(_)
Realize(S) ==
    IF S = {} THEN Q(0)
    ELSE LET t == CHOOSE u \in S : u.e = 0
         IN FAdd(FDiv(t.q, RCubed(t.r2)), Realize(S \ {t}))

\* np.sqrt of a number: exact on the square of a rational, symbolic otherwise.
SqrtOf(a) ==
    IF IsFinite(a) /\ a.n >= 0
          /\ Roots(a.n) # {} /\ Roots(a.d) # {}
    THEN Rat(ISqrt(a.n), ISqrt(a.d))
    ELSE FSqrt(a)

\* arr.min() and arr.max() of a non-empty array of numbers.
ArrayMin(arr) == FMinOf({arr[c] : c \in 1..Len(arr)})

ArrayMax(arr) == FMaxOf({arr[c] : c \in 1..Len(arr)})

\* Lines 250-252: the cell centres along each axis.
XCells(args) == Linspace(ArrayMin(args.x_obs), ArrayMax(args.x_obs), args.mesh_params.nx)

YCells(args) == Linspace(ArrayMin(args.y_obs), ArrayMax(args.y_obs), args.mesh_params.ny)

ZCells(args) ==
    LET mp == args.mesh_params
    IN Linspace(mp.z_top, FAdd(mp.z_top, FMul(Q(mp.nz), mp.dz)), mp.nz)

\* n_cells = len(X_cells) after meshgrid(..., indexing='ij') and flatten()
NCells(mp) == mp.nx * mp.ny * mp.nz

\* Mutant: the flattening of meshgrid's default indexing='xy', y slowest.
CellIndex_XY(mp, j) ==
    [ix |-> (j \div mp.nz) % mp.nx, iy |-> j \div (mp.nx * mp.nz), iz |-> j % mp.nz]

\* The position along each axis of flat cell j (0-based) with indexing='ij':
\* j = (ix * ny + iy) * nz + iz.
CellIndex(mp, j) ==
    [ix |-> j \div (mp.ny * mp.nz), iy |-> (j \div mp.nz) % mp.ny, iz |-> j % mp.nz]

\* cell_volume = dx * dy * dz
CellVolume(mp) == FMul(FMul(mp.dx, mp.dy), mp.dz)

\* The operands x_obs and y_obs combine elementwise: equal lengths, or a
\* one-element y_obs stretched by broadcasting; the column must fit G[:, j].
ColumnFits(args) == Len(args.y_obs) = Len(args.x_obs) \/ Len(args.y_obs) = 1

Stretch(arr, n) == IF Len(arr) = 1 THEN [c \in 1..n |-> arr[1]] ELSE arr

\* Mutant: the anomaly accumulates over the loop, column j holds the response of
\* cell j on top of what column j - 1 holds.
SensitivityColumn_Carry(args, j) ==
    LET mp == args.mesh_params
        at == CellIndex(mp, j)
        n_obs == Len(args.x_obs)
        r_equiv == EquivalentRadius(CellVolume(mp))
        anomaly == forward_magnetic_sphere(args.x_obs, Stretch(args.y_obs, n_obs),
                               [c \in 1..n_obs |-> Q(0)],
                               XCells(args)[at.ix + 1], YCells(args)[at.iy + 1],
                               ZCells(args)[at.iz + 1],
                               r_equiv, Q(1), args.inclination, args.declination)
    IN [r \in 1..n_obs |-> IF j = 0 THEN anomaly[r] ELSE SymAdd(anomaly[r], G[r][j])]

\* Lines 278-285: the unit-susceptibility response of cell j at every observation.
SensitivityColumn(args, j) ==
    LET mp == args.mesh_params
        at == CellIndex(mp, j)
        n_obs == Len(args.x_obs)
        r_equiv == EquivalentRadius(CellVolume(mp))
    IN forward_magnetic_sphere(args.x_obs, Stretch(args.y_obs, n_obs),
                               [c \in 1..n_obs |-> Q(0)],
                               XCells(args)[at.ix + 1], YCells(args)[at.iy + 1],
                               ZCells(args)[at.iz + 1],
                               r_equiv, Q(1), args.inclination, args.declination)

\* G[:, j] = anomaly
SetColumn(M, j, column) ==
    [r \in 1..Len(M) |-> [c \in 1..Len(M[r]) |-> IF c = j + 1 THEN column[r] ELSE M[r][c]]]

\* A_reg = G.T @ G + alpha * np.eye(n_cells)
Regularized(Gnum, n_cells, alpha) ==
    LET Gt == Transpose(Gnum, n_cells)
        GTG == Gram(Gt)
    IN [r \in 1..n_cells |->
          [c \in 1..n_cells |-> FAdd(GTG[r][c], IF r = c THEN alpha ELSE Q(0))]]

\* Mutant: the right-hand side replaced by a unit load in every cell.
NormalRhs_Unit(Gnum, n_cells, d) == [c \in 1..n_cells |-> Q(1)]

\* GTd = G.T @ mag_obs
NormalRhs(Gnum, n_cells, d) == MatVec(Transpose(Gnum, n_cells), d)

\* np.linalg.solve refuses a singular matrix.
IsSingular(A) == Len(GaussJordan(A, Len(A), 1, 1, <<>>).piv) < Len(A)

\* susceptibility.reshape((nx, ny, nz))
Reshape3(v, mp) ==
    [ix \in 1..mp.nx |->
        [iy \in 1..mp.ny |->
            [iz \in 1..mp.nz |-> v[((ix - 1) * mp.ny + (iy - 1)) * mp.nz + iz]]]]

\* Lines 295-328 for a complete kernel: the dictionary returned.
Invert(args, kernel) ==
    LET mp == args.mesh_params
        n_cells == NCells(mp)
        Gnum == [r \in 1..Len(kernel) |-> [c \in 1..n_cells |-> Realize(kernel[r][c])]]
        A_reg == Regularized(Gnum, n_cells, args.alpha)
        susceptibility == SolveConsistent(A_reg, NormalRhs(Gnum, n_cells, args.mag_obs))
        mag_calc == MatVec(Gnum, susceptibility)
        residuales == [r \in 1..Len(args.mag_obs) |-> FSub(args.mag_obs[r], mag_calc[r])]
        mean == FDiv(Dot(residuales, residuales), Q(Len(residuales)))
    IN [susceptibility_3d |-> Reshape3(susceptibility, mp),
        x_cells |-> XCells(args), y_cells |-> YCells(args), z_cells |-> ZCells(args),
        mag_calculated |-> mag_calc, residuals |-> residuales, rms |-> SqrtOf(mean),
        G_matrix |-> kernel]

\* Mutant: an iterative solver that gives up when max_iter is below its default.
SolveError_IterLimit(args, kernel) == IF args.max_iter < 50 THEN "RuntimeError" ELSE ""

\* What lines 295-314 raise for a complete kernel, "" when they raise nothing:
\* G.T @ mag_obs needs one value per row of G, solve needs a regular matrix, and
\* susceptibility.min() in the report of line 314 needs at least one cell.
SolveError(args, kernel) ==
    LET n_cells == NCells(args.mesh_params)
        Gnum == [r \in 1..Len(kernel) |-> [c \in 1..n_cells |-> Realize(kernel[r][c])]]
    IN IF Len(args.mag_obs) # Len(args.x_obs) THEN "ValueError"
       ELSE IF n_cells = 0 THEN "ValueError"
       ELSE IF IsSingular(Regularized(Gnum, n_cells, args.alpha)) THEN "LinAlgError"
       ELSE ""

\* The calls: observations on the line y = 0 at x = 0 or 2, cells of volume 2/25
\* at the surface or four metres below it.
MeshShapes == {<<1, 1, 1>>, <<2, 1, 1>>, <<1, 2, 1>>, <<1, 1, 2>>, <<0, 1, 1>>, <<-1, 1, 1>>}

CellSizes ==
    {<<Rat(1, 5), Rat(1, 5), Q(2)>>, <<Q(0), Rat(1, 5), Q(2)>>,
     <<Rat(-1, 5), Rat(-1, 5), Q(2)>>}

Mesh(shape, size) ==
    [nx |-> shape[1], ny |-> shape[2], nz |-> shape[3],
     dx |-> size[1], dy |-> size[2], dz |-> size[3], z_top |-> Q(0)]

Alphas == {Q(1), Q(2), Q(0)}

MaxIters == {50, 5}

InversionArgs(xs, ys, mags, mp, alpha, max_iter) ==
    [x_obs |-> xs, y_obs |-> ys, mag_obs |-> mags, mesh_params |-> mp,
     inclination |-> 45, declination |-> 0, alpha |-> alpha, max_iter |-> max_iter]

\* A mesh with two layers needs every observation above the same point.
WholeDistances(xs, shape) == shape[3] = 1 \/ \A c \in 1..Len(xs) : xs[c] = xs[1]

\* The lengths of y_obs and mag_obs for n observations: equal, a one-element
\* y_obs, a y_obs or a mag_obs with one element more.
Lengths(n) == {<<n, n>>, <<1, n>>, <<n + 1, n>>, <<n, n + 1>>}

\* The calls tried have at most one irregular argument, and an irregular call
\* has the default alpha and max_iter.
Irregularities(n, shape, size, lens) ==
    (IF shape[1] <= 0 THEN 1 ELSE 0) + (IF size # <<Rat(1, 5), Rat(1, 5), Q(2)>> THEN 1 ELSE 0)
        + (IF lens # <<n, n>> THEN 1 ELSE 0)

InversionStart ==
    /\ \E n \in 1..MaxObs, shape \in MeshShapes, size \in CellSizes,
          alpha \in Alphas, max_iter \in MaxIters :
          \E xs \in [1..n -> {Q(0), Q(2)}], lens \in Lengths(n) :
             \E mags \in [1..n -> {Q(0), Q(1)}] :
                /\ WholeDistances(xs, shape)
                /\ Irregularities(n, shape, size, lens) <= 1
                /\ Irregularities(n, shape, size, lens) = 1 => alpha = Q(1) /\ max_iter = 50
                /\ inv_args = InversionArgs(xs, [c \in 1..lens[1] |-> Q(0)],
                                            [c \in 1..lens[2] |-> IF c <= n THEN mags[c] ELSE Q(0)],
                                            Mesh(shape, size), alpha, max_iter)
    /\ inv_pc = "mesh"
    /\ inv_cols = {}
    /\ G = <<>>
    /\ inv_error = ""
    /\ resultado = None

InversionIdle ==
    /\ inv_args = InversionArgs(<<>>, <<>>, <<>>, Mesh(<<0, 0, 0>>, <<Q(0), Q(0), Q(0)>>),
                                Q(0), 0)
    /\ inv_pc = "idle"
    /\ inv_cols = {}
    /\ G = <<>>
    /\ inv_error = ""
    /\ resultado = None

\* Calls on meshes with two cells along two of the axes.  The observations
\* are spread along x, along y, or share one position, and the cells go one
\* level deep unless the observations share their position, so that every
\* distance of the kernel is a whole number.
CellShapes == {<<2, 2, 1>>, <<2, 1, 2>>, <<1, 2, 2>>}

\* The observation points (x, y) of those calls.
CellObservations ==
    {<<<<0, 0>>>>, <<<<0, 0>>, <<0, 0>>>>,
     <<<<0, 0>>, <<2, 0>>>>, <<<<2, 0>>, <<0, 0>>>>,
     <<<<0, 0>>, <<0, 2>>>>, <<<<0, 2>>, <<0, 0>>>>}

InversionCellsStart ==
    /\ \E obs \in CellObservations, shape \in CellShapes, alpha \in {Q(1), Q(2)},
          d \in {<<45, 0>>, <<30, 90>>} :
          \E mags \in [1..Len(obs) -> {Q(0), Q(1)}] :
             /\ shape[3] = 1 \/ \A c \in 1..Len(obs) : obs[c] = obs[1]
             /\ inv_args = [InversionArgs([c \in 1..Len(obs) |-> Q(obs[c][1])],
                                          [c \in 1..Len(obs) |-> Q(obs[c][2])], mags,
                                          Mesh(shape, <<Rat(1, 5), Rat(1, 5), Q(2)>>),
                                          alpha, 50)
                               EXCEPT !.inclination = d[1], !.declination = d[2]]
    /\ inv_pc = "mesh"
    /\ inv_cols = {}
    /\ G = <<>>
    /\ inv_error = ""
    /\ resultado = None

\* Lines 245-270: np.linspace refuses a negative number of samples; otherwise
\* the mesh is laid out and G = np.zeros((n_obs, n_cells)).
InversionMesh ==
    /\ inv_pc = "mesh"
    /\ LET mp == inv_args.mesh_params
       IN IF mp.nx < 0 \/ mp.ny < 0 \/ mp.nz < 0
          THEN /\ inv_pc' = "raised"
               /\ inv_error' = "ValueError"
               /\ G' = G
          ELSE /\ inv_pc' = "kernel"
               /\ inv_error' = inv_error
               /\ G' = [r \in 1..Len(inv_args.x_obs) |-> [c \in 1..NCells(mp) |-> {}]]
    /\ UNCHANGED <<inv_args, inv_cols, resultado>>

\* for j in range(n_cells): one pass of the loop body (lines 273-287).
InversionColumn ==
    /\ inv_pc = "kernel"
    /\ LET j == Cardinality(inv_cols)
       IN /\ j < NCells(inv_args.mesh_params)
          /\ IF ColumnFits(inv_args)
             THEN /\ G' = SetColumn(G, j, SensitivityColumn(inv_args, j))
                  /\ inv_cols' = inv_cols \cup {j}
                  /\ UNCHANGED <<inv_pc, inv_error>>
             ELSE /\ inv_pc' = "raised"
                  /\ inv_error' = "ValueError"
                  /\ UNCHANGED <<G, inv_cols>>
    /\ UNCHANGED <<inv_args, resultado>>

\* Lines 295-330 once the loop is exhausted.
InversionSolve ==
    /\ inv_pc = "kernel"
    /\ Cardinality(inv_cols) = NCells(inv_args.mesh_params)
    /\ LET err == SolveError(inv_args, G)
       IN IF err = ""
          THEN /\ resultado' = Invert(inv_args, G)
               /\ inv_pc' = "done"
               /\ inv_error' = inv_error
          ELSE /\ resultado' = resultado
               /\ inv_pc' = "raised"
               /\ inv_error' = err
    /\ UNCHANGED <<inv_args, inv_cols, G>>

InversionNext == InversionMesh \/ InversionColumn \/ InversionSolve

\* The loop body of lines 273-287 run for the cells in any order: one column
\* that was not computed yet.
InversionAnyColumn ==
    /\ inv_pc = "kernel"
    /\ \E j \in (0..(NCells(inv_args.mesh_params) - 1)) \ inv_cols :
          IF ColumnFits(inv_args)
          THEN /\ G' = SetColumn(G, j, SensitivityColumn(inv_args, j))
               /\ inv_cols' = inv_cols \cup {j}
               /\ UNCHANGED <<inv_pc, inv_error>>
          ELSE /\ inv_pc' = "raised"
               /\ inv_error' = "ValueError"
               /\ UNCHANGED <<G, inv_cols>>
    /\ UNCHANGED <<inv_args, resultado>>

InversionAnyOrderNext == InversionMesh \/ InversionAnyColumn \/ InversionSolve

-----------------------------------------------------------------------------
(* TerrafMag: the analysis operations on the loaded field *)

(***************************************************************************)
(* Results that leave the rationals are kept in symbolic form, one record  *)
(* per sample naming the transform and what it was applied to: the FFT     *)
(* based transforms, the scattered-data interpolation, arctan2 and the     *)
(* Gaussian filter. Two such records are equal exactly when the transform  *)
(* and its arguments are.                                                  *)
(***************************************************************************)

\* How a method ended: the exception it raised ("" for none), what it returned,
\* and self.derivadas and self._coords_cache when it ended.
Outcome(raised, value, d, cache) ==
    [raised |-> raised, value |-> value, derivadas |-> d, cache |-> cache]

\* The record of a call kept in tm_ret.
MagCall(op, param, out) ==
    [op |-> op, param |-> param, raised |-> out.raised, value |-> out.value]

\* Lines 176-177, 249-250, 275-276, 310-311, ...: an operation that returns
\* without looking at the field.
WithField_Silent(campo, d, cache, out) ==
    IF campo = None THEN Outcome("", None, d, cache) ELSE out

\* Lines 176-177, 249-250, 275-276, 310-311, ...: every operation starts with
\* `if self.campo_total is None: raise ValueError`.
WithField(campo, d, cache, out) ==
    IF campo = None THEN Outcome("ValueError", None, d, cache) ELSE out

\* An analysis operation is called on a live instance.
Called ==
    /\ tm_ret.op # "idle"
    /\ tm_calls < MaxCalls
    /\ tm_calls' = tm_calls + 1

\* np.gradient(f) of a 1-D array with two samples or more: one-sided differences
\* at the ends, central differences inside.
Gradient1d(f) ==
    [m \in 1..Len(f) |->
        IF m = 1 THEN FSub(f[2], f[1])
        ELSE IF m = Len(f) THEN FSub(f[m], f[m - 1])
        ELSE FDiv(FSub(f[m + 1], f[m - 1]), Q(2))]

\* np.abs
FAbs(a) == IF IsFinite(a) /\ a.n < 0 THEN FNeg(a) ELSE IF IsInf(a) THEN Inf(1) ELSE a

\* The result of a transform of a whole array, sample by sample. A NaN or an
\* infinity anywhere in the input of an FFT makes every sample NaN.
Transformed(name, param, v) ==
    IF \E m \in 1..Len(v) : ~IsFinite(v[m])
    THEN [m \in 1..Len(v) |-> NaN]
    ELSE [m \in 1..Len(v) |-> [k |-> name, param |-> param, of |-> v, sample |-> m]]

\* calcular_derivada_horizontal(direccion): lines 252-263.
HorizontalOutcome(campo, d, cache, direccion) ==
    IF Len(campo.v) < 2
    THEN \* np.gradient needs two samples
         Outcome("ValueError", None, d, cache)
    ELSE LET dx == Gradient1d(campo.v)
             derivada == IF direccion = "total"
                         THEN Array([m \in 1..Len(dx) |-> FAbs(dx[m])])
                         ELSE Array(dx)
         IN Outcome("", derivada, SetItem(d, "horizontal", derivada), cache)

\* f'vertical_{orden}'
VerticalKey(orden) == IF orden = 1 THEN "vertical_1" ELSE "vertical_2"

\* calcular_derivada_vertical(orden): lines 495-505. With one sample the only
\* wavenumber is 0 and the derivative is 0.
VerticalOutcome(campo, d, cache, orden) ==
    LET derivada == IF Len(campo.v) = 1 /\ IsFinite(campo.v[1])
                    THEN Array(<<Q(0)>>)
                    ELSE Array(Transformed("fft_derivative", orden, campo.v))
    IN Outcome("", derivada, SetItem(d, VerticalKey(orden), derivada), cache)

\* a op b of two 1-D arrays under numpy broadcasting: equal lengths, or one of
\* them of length 1; the lengths of the operands otherwise do not match.
Broadcastable(a, b) == Len(a) = Len(b) \/ Len(a) = 1 \/ Len(b) = 1

BroadcastLen(a, b) == IF Len(a) = 1 THEN Len(b) ELSE Len(a)

At(a, m) == IF Len(a) = 1 THEN a[1] ELSE a[m]

\* np.arctan2(y, x) of one sample: NaN if either is, else the angle of (x, y),
\* which lies within a quarter turn of 0 for x > 0 and outside it for x < 0.
Arctan2(y, x) ==
    IF IsNaN(y) \/ IsNaN(x) THEN NaN
    ELSE [k |-> "arctan2", y |-> y, x |-> x]

\* Lines 314-315 and 317-318: a derivative is computed only when self.derivadas
\* does not hold it yet; an exception of the inner call ends the outer one.
WithHorizontal(campo, o) ==
    IF o.raised # "" \/ "horizontal" \in DOMAIN o.derivadas THEN o
    ELSE HorizontalOutcome(campo, o.derivadas, o.cache, "total")

WithVertical(campo, o) ==
    IF o.raised # "" \/ "vertical_1" \in DOMAIN o.derivadas THEN o
    ELSE VerticalOutcome(campo, o.derivadas, o.cache, 1)

\* Lines 321-331, with the two derivatives in self.derivadas.
TiltFrom(o) ==
    LET dh == o.derivadas["horizontal"].v
        dv == o.derivadas["vertical_1"].v
        tilt == Array([m \in 1..BroadcastLen(dv, dh) |-> Arctan2(At(dv, m), At(dh, m))])
    IN IF o.raised # "" THEN Outcome(o.raised, None, o.derivadas, o.cache)
       ELSE IF ~Broadcastable(dv, dh) THEN Outcome("ValueError", None, o.derivadas, o.cache)
       ELSE Outcome("", tilt, SetItem(o.derivadas, "tilt_angle", tilt), o.cache)

\* The one element of a set of one.
Only(S) == CHOOSE x \in S : TRUE

\* calcular_tilt_angle(): lines 313-331.
TiltOutcome(campo, d, cache) ==
    Only({TiltFrom(v) :
            v \in {WithVertical(campo, h) :
                      h \in {WithHorizontal(campo, Outcome("", None, d, cache))}}})

\* self._coords_cache once the centroids were read.
CoordsCache(points) == [k |-> "coords", points |-> points]

\* obtener_coordenadas(): lines 140-146. The centroids are read once and kept.
CoordsOutcome(frame, cache) ==
    IF cache # None THEN [raised |-> "", points |-> cache.points, cache |-> cache]
    ELSE IF frame = None
    THEN \* self.datos.columns on None
         [raised |-> "AttributeError", points |-> <<>>, cache |-> cache]
    ELSE IF ~frame.has_geometry
    THEN [raised |-> "ValueError", points |-> <<>>, cache |-> cache]
    ELSE [raised |-> "", points |-> frame.geometry, cache |-> CoordsCache(frame.geometry)]

\* Twice the signed area of the triangle p, q, r.
Cross(p, q, r) ==
    FSub(FMul(FSub(q[1], p[1]), FSub(r[2], p[2])),
         FMul(FSub(q[2], p[2]), FSub(r[1], p[1])))

Collinear(points) ==
    \A m, j \in 1..Len(points) : Cross(points[1], points[m], points[j]) = Q(0)

\* interpolar_a_grid (cubic) on the scattered samples, a transform of the grid,
\* and interpolar_desde_grid back to the samples: lines 282-294 and 349-358.
\* griddata needs as many values as points and a triangulation of the points.
GridTransform(name, param, campo, points) ==
    IF Len(points) # Len(campo.v) THEN [raised |-> "ValueError", v |-> <<>>]
    ELSE IF Len(points) < 3 \/ Collinear(points) THEN [raised |-> "QhullError", v |-> <<>>]
    ELSE [raised |-> "",
          v |-> [m \in 1..Len(points) |->
                   [k |-> name, param |-> param, of |-> campo.v, at |-> points, sample |-> m]]]

\* f'direccional_{azimuth}'
DireccionalKey(azimuth) == IF azimuth = 0 THEN "direccional_0" ELSE "direccional_90"

\* calcular_derivada_direccional(azimuth): lines 278-299.
DireccionalOutcome(campo, frame, d, cache, azimuth) ==
    LET c == CoordsOutcome(frame, cache)
        g == GridTransform("direccional", azimuth, campo, c.points)
    IN IF c.raised # "" THEN Outcome(c.raised, None, d, c.cache)
       ELSE IF g.raised # "" THEN Outcome(g.raised, None, d, c.cache)
       ELSE Outcome("", Array(g.v), SetItem(d, DireccionalKey(azimuth), Array(g.v)), c.cache)

\* calcular_gradiente_horizontal_total(): lines 345-363.
ThgOutcome(campo, frame, d, cache) ==
    LET c == CoordsOutcome(frame, cache)
        g == GridTransform("thg", 0, campo, c.points)
    IN IF c.raised # "" THEN Outcome(c.raised, None, d, c.cache)
       ELSE IF g.raised # "" THEN Outcome(g.raised, None, d, c.cache)
       ELSE Outcome("", Array(g.v), SetItem(d, "thg", Array(g.v)), c.cache)

\* np.sqrt(thg**2 + dz**2) of one sample.
SignalAmplitude(thg, dz) ==
    IF IsNaN(thg) \/ IsNaN(dz) THEN NaN
    ELSE [k |-> "sqrt_sum_sq", a |-> thg, b |-> dz]

\* Lines 379-380: THG is computed only when self.derivadas does not hold it yet.
WithThg(campo, frame, o) ==
    IF o.raised # "" \/ "thg" \in DOMAIN o.derivadas THEN o
    ELSE ThgOutcome(campo, frame, o.derivadas, o.cache)

\* Lines 386-395, with THG and the vertical derivative in self.derivadas.
AnalyticSignalFrom(o) ==
    LET thg == o.derivadas["thg"].v
        dz == o.derivadas["vertical_1"].v
        analytic_signal ==
            Array([m \in 1..BroadcastLen(thg, dz) |-> SignalAmplitude(At(thg, m), At(dz, m))])
    IN IF o.raised # "" THEN Outcome(o.raised, None, o.derivadas, o.cache)
       ELSE IF ~Broadcastable(thg, dz) THEN Outcome("ValueError", None, o.derivadas, o.cache)
       ELSE Outcome("", analytic_signal,
                    SetItem(o.derivadas, "analytic_signal", analytic_signal), o.cache)

\* calcular_gradiente_analitic_signal(): lines 378-395.
AnalyticSignalOutcome(campo, frame, d, cache) ==
    Only({AnalyticSignalFrom(v) :
            v \in {WithVertical(campo, t) :
                      t \in {WithThg(campo, frame, Outcome("", None, d, cache))}}})

\* f'upward_continuation_{altura}m'
UpwardKey(altura) ==
    IF altura = 0 THEN "upward_continuation_0m" ELSE "upward_continuation_100m"

\* continuacion_hacia_arriba(altura): lines 413-426.
UpwardOutcome(campo, d, cache, altura) ==
    LET campo_continuado == Array(Transformed("upward_continuation", altura, campo.v))
    IN Outcome("", campo_continuado, SetItem(d, UpwardKey(altura), campo_continuado), cache)

\* signal.butter(4, ...): the order of the filter, which has order + 1 coefficients.
FilterOrder == 4

\* signal.filtfilt pads the input with 3 * max(len(a), len(b)) samples on each side
\* and needs an input longer than that.
PadLen == 3 * (FilterOrder + 1)

\* aplicar_filtro_paso_alto / aplicar_filtro_paso_bajo: lines 441-452, 467-478.
FiltfiltOutcome(btype, campo, d, cache) ==
    IF Len(campo.v) <= PadLen THEN Outcome("ValueError", None, d, cache)
    ELSE LET campo_filtrado == Array(Transformed("filtfilt", btype, campo.v))
         IN Outcome("", campo_filtrado,
                    SetItem(d, IF btype = "high" THEN "highpass_filter" ELSE "lowpass_filter",
                            campo_filtrado),
                    cache)

\* self.campo_total * (1 / np.cos(np.radians(inclinacion))): lines 527-529.
\* The factor is 1 at inclinacion = 0.
ReducedToPole(campo, inclinacion) ==
    IF inclinacion = 0 THEN Array([m \in 1..Len(campo.v) |-> FMul(campo.v[m], Q(1))])
    ELSE Array([m \in 1..Len(campo.v) |->
                   IF IsNaN(campo.v[m]) THEN NaN
                   ELSE [k |-> "over_cos", deg |-> inclinacion, of |-> campo.v[m]]])

\* np.nanmean
NanMean(v) ==
    LET kept == SelectSeq(v, LAMBDA a : ~IsNaN(a))
    IN IF kept = <<>> THEN NaN ELSE FDiv(FSum(kept), Q(Len(kept)))

\* np.nanstd squared
NanVar(v) ==
    LET kept == SelectSeq(v, LAMBDA a : ~IsNaN(a))
        mean == NanMean(v)
    IN IF kept = <<>> THEN NaN
       ELSE FDiv(FSum([m \in 1..Len(kept) |-> Sq(FSub(kept[m], mean))]), Q(Len(kept)))

\* a > umbral_sigma * sqrt(variance), without leaving the rationals.
AboveSigmas(a, umbral_sigma, variance) ==
    /\ FGt(a, Q(0))
    /\ FGt(Sq(a), FMul(Sq(umbral_sigma), variance))

\* The indices (from 0) of the samples a condition holds for, in order.
Where(n, Holds(_)) ==
    LET RECURSIVE upto(_)
        upto(m) == IF m = 0 THEN <<>>
                   ELSE IF Holds(m) THEN Append(upto(m - 1), m - 1) ELSE upto(m - 1)
    IN upto(n)

\* detectar_anomalias(umbral_sigma): lines 547-570.
Detected(campo, umbral_sigma) ==
    LET mean == NanMean(campo.v)
        variance == NanVar(campo.v)
        indices_altas ==
            Where(Len(campo.v), LAMBDA m : AboveSigmas(FSub(campo.v[m], mean), umbral_sigma, variance))
        indices_bajas ==
            Where(Len(campo.v), LAMBDA m : AboveSigmas(FSub(mean, campo.v[m]), umbral_sigma, variance))
    IN [n_anomalias_altas |-> Len(indices_altas),
        n_anomalias_bajas |-> Len(indices_bajas),
        indices_altas |-> indices_altas,
        indices_bajas |-> indices_bajas,
        valores_altas |-> [j \in 1..Len(indices_altas) |-> campo.v[indices_altas[j] + 1]],
        valores_bajas |-> [j \in 1..Len(indices_bajas) |-> campo.v[indices_bajas[j] + 1]]]

\* suavizar_datos(metodo, ventana=11, orden=3): the default window.
SavgolWindow == 11

\* suavizar_datos(metodo): lines 587-596. savgol_filter (mode 'interp') needs a
\* window no longer than the array.
SmoothOutcome(campo, d, cache, metodo) ==
    IF metodo = "savgol"
    THEN IF SavgolWindow > Len(campo.v) THEN Outcome("ValueError", None, d, cache)
         ELSE Outcome("", Array(Transformed("savgol", SavgolWindow, campo.v)), d, cache)
    ELSE IF metodo = "gaussian"
    THEN Outcome("", Array(Transformed("gaussian_filter1d", SavgolWindow, campo.v)), d, cache)
    ELSE Outcome("ValueError", None, d, cache)

\* calcular_estadisticas_basicas(datos, nombre): terraf_utils lines 235-257.
EstadisticasBasicas(v, nombre) ==
    LET datos_validos == SelectSeq(v, IsFinite)
        n == Len(datos_validos)
        values == {datos_validos[m] : m \in 1..n}
        mean == FDiv(FSum(datos_validos), Q(n))
    IN IF n = 0
       THEN [nombre |-> nombre, n_validos |-> 0, n_total |-> Len(v)]
       ELSE [nombre |-> nombre,
             n_total |-> Len(v),
             n_validos |-> n,
             n_nulos |-> Len(v) - n,
             min |-> FMinOf(values),
             max |-> FMaxOf(values),
             mean |-> mean,
             median |-> Percentile(datos_validos, 50),
             std |-> SqrtOf(FDiv(FSum([m \in 1..n |-> Sq(FSub(datos_validos[m], mean))]), Q(n))),
             percentil_25 |-> Percentile(datos_validos, 25),
             percentil_75 |-> Percentile(datos_validos, 75),
             rango |-> FSub(FMaxOf(values), FMinOf(values))]

\* df[name] = values (lines 612-619): a column of another length is refused.
WithColumn(df, name, values) ==
    IF df.raised # "" THEN df
    ELSE IF Len(values.v) # Len(df.frame.columns[1].values)
    THEN [raised |-> "ValueError", frame |-> df.frame]
    ELSE [raised |-> "",
          frame |-> [df.frame EXCEPT !.columns = Append(@, Column(name, "float64", values.v))]]

\* df_export of lines 610-619.
ExportFrame(frame, anom, d) ==
    LET base == [raised |-> "", frame |-> frame]
        a == IF anom # None THEN WithColumn(base, "anomalia_residual", anom) ELSE base
        h == IF "horizontal" \in DOMAIN d
             THEN WithColumn(a, "derivada_horizontal", d["horizontal"]) ELSE a
    IN IF "vertical_1" \in DOMAIN d
       THEN WithColumn(h, "derivada_vertical", d["vertical_1"]) ELSE h

\* The columns are added to the frame the instance holds.
DatosAfterExport_Shared(frame, df_export) == df_export

\* df_export = self.datos.copy() (line 610): the columns are added to a copy and
\* the instance keeps its frame.
DatosAfterExport(frame, df_export) == frame

\* How writing the file ends (lines 622-633): written, refused by the file system,
\* or refused for the format.
WriteOutcomes(df_export, formato) ==
    IF formato = "csv" THEN {"", "OSError"}
    ELSE IF formato = "shapefile"
    THEN IF df_export.has_geometry THEN {"", "OSError"} ELSE {"ValueError"}
    ELSE {"ValueError"}

\* What the operations are called with.
Direcciones == {"x", "total"}

Azimuths == {90}

Alturas == {100}

Ordenes == {1, 2}

Inclinaciones == {0, 60}

MetodosSuavizado == {"savgol", "gaussian", "media"}

Formatos == {"csv", "shapefile", "xlsx"}

\* umbral_sigma=2.0 of detectar_anomalias.
UmbralSigma == 2

\* The attributes an operation on self.derivadas leaves alone.
derivadas_frame ==
    <<datos, campo_total, anomalia, reduccion_polo, estadisticas, bounds_cache>>

\* calcular_estadisticas(): lines 175-186.
calcular_estadisticas ==
    /\ Called
    /\ LET value == EstadisticasBasicas(campo_total.v, "Campo Magnetico Total")
           out == WithField(campo_total, derivadas, coords_cache,
                            Outcome("", value, derivadas, coords_cache))
       IN /\ estadisticas' = IF out.raised = "" THEN out.value ELSE estadisticas
          /\ tm_ret' = MagCall("calcular_estadisticas", "", out)
    /\ UNCHANGED <<datos, campo_total, anomalia, reduccion_polo, derivadas, coords_cache,
                   bounds_cache>>

\* calcular_derivada_horizontal(direccion): lines 239-263.
calcular_derivada_horizontal ==
    /\ Called
    /\ \E direccion \in Direcciones :
          \E out \in {WithField(campo_total, derivadas, coords_cache,
                               HorizontalOutcome(campo_total, derivadas, coords_cache, direccion))} :
             /\ derivadas' = out.derivadas
             /\ tm_ret' = MagCall("calcular_derivada_horizontal", direccion, out)
    /\ UNCHANGED <<derivadas_frame, coords_cache>>

\* calcular_derivada_direccional(azimuth): lines 265-299.
calcular_derivada_direccional ==
    /\ Called
    /\ \E azimuth \in Azimuths :
          \E out \in {WithField(campo_total, derivadas, coords_cache,
                               DireccionalOutcome(campo_total, datos, derivadas, coords_cache,
                                                  azimuth))} :
             /\ derivadas' = out.derivadas
             /\ coords_cache' = out.cache
             /\ tm_ret' = MagCall("calcular_derivada_direccional", azimuth, out)
    /\ UNCHANGED derivadas_frame

\* calcular_tilt_angle(): lines 301-331.
calcular_tilt_angle ==
    /\ Called
    /\ \E out \in {WithField(campo_total, derivadas, coords_cache,
                            TiltOutcome(campo_total, derivadas, coords_cache))} :
          /\ derivadas' = out.derivadas
          /\ tm_ret' = MagCall("calcular_tilt_angle", "", out)
    /\ UNCHANGED <<derivadas_frame, coords_cache>>

\* calcular_gradiente_horizontal_total(): lines 333-363.
calcular_gradiente_horizontal_total ==
    /\ Called
    /\ \E out \in {WithField(campo_total, derivadas, coords_cache,
                            ThgOutcome(campo_total, datos, derivadas, coords_cache))} :
          /\ derivadas' = out.derivadas
          /\ coords_cache' = out.cache
          /\ tm_ret' = MagCall("calcular_gradiente_horizontal_total", "", out)
    /\ UNCHANGED derivadas_frame

\* calcular_gradiente_analitic_signal(): lines 365-395.
calcular_gradiente_analitic_signal ==
    /\ Called
    /\ \E out \in {WithField(campo_total, derivadas, coords_cache,
                            AnalyticSignalOutcome(campo_total, datos, derivadas, coords_cache))} :
          /\ derivadas' = out.derivadas
          /\ coords_cache' = out.cache
          /\ tm_ret' = MagCall("calcular_gradiente_analitic_signal", "", out)
    /\ UNCHANGED derivadas_frame

\* continuacion_hacia_arriba(altura): lines 397-426.
continuacion_hacia_arriba ==
    /\ Called
    /\ \E altura \in Alturas :
          \E out \in {WithField(campo_total, derivadas, coords_cache,
                               UpwardOutcome(campo_total, derivadas, coords_cache, altura))} :
             /\ derivadas' = out.derivadas
             /\ tm_ret' = MagCall("continuacion_hacia_arriba", altura, out)
    /\ UNCHANGED <<derivadas_frame, coords_cache>>

\* aplicar_filtro_paso_alto(): lines 428-452.
aplicar_filtro_paso_alto ==
    /\ Called
    /\ \E out \in {WithField(campo_total, derivadas, coords_cache,
                            FiltfiltOutcome("high", campo_total, derivadas, coords_cache))} :
          /\ derivadas' = out.derivadas
          /\ tm_ret' = MagCall("aplicar_filtro_paso_alto", "", out)
    /\ UNCHANGED <<derivadas_frame, coords_cache>>

\* aplicar_filtro_paso_bajo(): lines 454-478.
aplicar_filtro_paso_bajo ==
    /\ Called
    /\ \E out \in {WithField(campo_total, derivadas, coords_cache,
                            FiltfiltOutcome("low", campo_total, derivadas, coords_cache))} :
          /\ derivadas' = out.derivadas
          /\ tm_ret' = MagCall("aplicar_filtro_paso_bajo", "", out)
    /\ UNCHANGED <<derivadas_frame, coords_cache>>

\* calcular_derivada_vertical(orden): lines 480-505.
calcular_derivada_vertical ==
    /\ Called
    /\ \E orden \in Ordenes :
          \E out \in {WithField(campo_total, derivadas, coords_cache,
                               VerticalOutcome(campo_total, derivadas, coords_cache, orden))} :
             /\ derivadas' = out.derivadas
             /\ tm_ret' = MagCall("calcular_derivada_vertical", orden, out)
    /\ UNCHANGED <<derivadas_frame, coords_cache>>

\* reduccion_al_polo(inclinacion, declinacion): lines 507-531.
reduccion_al_polo ==
    /\ Called
    /\ \E inclinacion \in Inclinaciones :
          LET out == WithField(campo_total, derivadas, coords_cache,
                               Outcome("", ReducedToPole(campo_total, inclinacion),
                                       derivadas, coords_cache))
          IN /\ reduccion_polo' = IF out.raised = "" THEN out.value ELSE reduccion_polo
             /\ tm_ret' = MagCall("reduccion_al_polo", inclinacion, out)
    /\ UNCHANGED <<datos, campo_total, anomalia, derivadas, estadisticas, coords_cache,
                   bounds_cache>>

\* detectar_anomalias(umbral_sigma): lines 533-570.
detectar_anomalias ==
    /\ Called
    /\ LET out == WithField(campo_total, derivadas, coords_cache,
                            Outcome("", Detected(campo_total, Q(UmbralSigma)),
                                    derivadas, coords_cache))
       IN tm_ret' = MagCall("detectar_anomalias", UmbralSigma, out)
    /\ UNCHANGED <<derivadas_frame, derivadas, coords_cache>>

\* suavizar_datos(metodo): lines 572-596.
suavizar_datos ==
    /\ Called
    /\ \E metodo \in MetodosSuavizado :
          \E out \in {WithField(campo_total, derivadas, coords_cache,
                               SmoothOutcome(campo_total, derivadas, coords_cache, metodo))} :
             tm_ret' = MagCall("suavizar_datos", metodo, out)
    /\ UNCHANGED <<derivadas_frame, derivadas, coords_cache>>

\* exportar_resultados(ruta_salida, formato): lines 598-633.
exportar_resultados ==
    /\ Called
    /\ \E formato \in Formatos :
          IF datos = None
          THEN /\ tm_ret' = MagCall("exportar_resultados", formato,
                                    Outcome("ValueError", None, derivadas, coords_cache))
               /\ UNCHANGED datos
          ELSE LET df == ExportFrame(datos, anomalia, derivadas)
               IN /\ datos' = DatosAfterExport(datos, df.frame)
                  /\ \E raised \in IF df.raised # "" THEN {df.raised}
                                   ELSE WriteOutcomes(df.frame, formato) :
                        tm_ret' = MagCall("exportar_resultados", formato,
                                          Outcome(raised, df.frame.columns, derivadas,
                                                  coords_cache))
    /\ UNCHANGED <<campo_total, anomalia, reduccion_polo, estadisticas, derivadas, coords_cache,
                   bounds_cache>>

\* The frames the analysis is run on: one record, or as many as a dataset has.
AnalysisFrames == {f \in Frames : Len(f.columns[1].values) \in {1, MaxSamples}}

\* An instance right after loading: the frame, the field _detectar_columnas
\* found in it, and nothing computed.
AnalysisStart ==
    /\ datos \in AnalysisFrames \cup {None}
    /\ campo_total = DetectedField(datos, None)
    /\ anomalia = None
    /\ reduccion_polo = None
    /\ derivadas = EmptyDict
    /\ estadisticas = EmptyDict
    /\ coords_cache = None
    /\ bounds_cache = None
    /\ tm_calls = 0
    /\ tm_ret = NoCall

AnalysisNext ==
    \/ calcular_estadisticas
    \/ calcular_anomalia_residual
    \/ calcular_derivada_horizontal
    \/ calcular_derivada_direccional
    \/ calcular_tilt_angle
    \/ calcular_gradiente_horizontal_total
    \/ calcular_gradiente_analitic_signal
    \/ continuacion_hacia_arriba
    \/ aplicar_filtro_paso_alto
    \/ aplicar_filtro_paso_bajo
    \/ calcular_derivada_vertical
    \/ reduccion_al_polo
    \/ detectar_anomalias
    \/ suavizar_datos
    \/ exportar_resultados

-----------------------------------------------------------------------------
(* TerrafMag: the cached coordinates and bounds *)

\* The coordinate systems the bounds are asked in.
TargetCrs == {"EPSG:4326", "EPSG:32613"}

\* self._bounds_cache once it is a dictionary.
BoundsCache(items) == [k |-> "dict", items |-> items]

\* obtener_bounds_geometrias(self.datos.geometry, crs, target_crs): the box of
\* the centroids, carried over from the CRS of the dataset to target_crs.
BoundsOf(frame, target_crs) ==
    LET x == [c \in 1..Len(frame.geometry) |-> frame.geometry[c][1]]
        y == [c \in 1..Len(frame.geometry) |-> frame.geometry[c][2]]
    IN [k |-> "bounds", target_crs |-> target_crs,
        box |-> <<ArrayMin(x), ArrayMin(y), ArrayMax(x), ArrayMax(y)>>]

CacheCall(op, target_crs, forzar_recalculo, raised, value) ==
    [op |-> op, target_crs |-> target_crs, forzar_recalculo |-> forzar_recalculo,
     raised |-> raised, value |-> value]

\* obtener_coordenadas(forzar_recalculo): lines 140-146.
obtener_coordenadas ==
    /\ tm_ret.op # "idle"
    /\ \E forzar_recalculo \in BOOLEAN :
          \E out \in {CoordsOutcome(datos, IF forzar_recalculo THEN None ELSE coords_cache)} :
             /\ coords_cache' = IF out.raised = "" THEN out.cache ELSE coords_cache
             /\ tm_ret' = CacheCall("obtener_coordenadas", "", forzar_recalculo,
                                    out.raised, out.points)
    /\ UNCHANGED <<derivadas_frame, derivadas, tm_calls>>

\* obtener_bounds(target_crs, forzar_recalculo): lines 159-173.
obtener_bounds ==
    /\ tm_ret.op # "idle"
    /\ \E target_crs \in TargetCrs, forzar_recalculo \in BOOLEAN :
          \E cache \in {IF bounds_cache = None THEN EmptyDict ELSE bounds_cache.items} :
             IF target_crs \notin DOMAIN cache \/ forzar_recalculo
             THEN IF datos = None \/ ~datos.has_geometry
                  THEN \* self.datos.columns on None, or no 'geometry' column
                       /\ bounds_cache' = BoundsCache(cache)
                       /\ tm_ret' = CacheCall("obtener_bounds", target_crs, forzar_recalculo,
                                              IF datos = None THEN "AttributeError"
                                              ELSE "ValueError", None)
                  ELSE /\ bounds_cache' =
                             BoundsCache(SetItem(cache, target_crs, BoundsOf(datos, target_crs)))
                       /\ tm_ret' = CacheCall("obtener_bounds", target_crs, forzar_recalculo,
                                              "", BoundsOf(datos, target_crs))
             ELSE /\ bounds_cache' = BoundsCache(cache)
                  /\ tm_ret' = CacheCall("obtener_bounds", target_crs, forzar_recalculo,
                                         "", cache[target_crs])
    /\ UNCHANGED <<datos, campo_total, anomalia, reduccion_polo, derivadas, estadisticas,
                   coords_cache, tm_calls>>

\* The calls that load a dataset and read its coordinates and bounds.
CacheNext == cargar_datos \/ obtener_coordenadas \/ obtener_bounds

\* The calls that load a dataset and derive from its field.
ReloadNext == cargar_datos \/ calcular_derivada_horizontal

-----------------------------------------------------------------------------
(* Specifications: one per routine, the other routines idle *)

EulerInit ==
    /\ EulerStart
    /\ FilterIdle /\ ClusterIdle /\ PrismIdle /\ ResidualGridIdle /\ TerrafMagIdle /\
       DerivadasIdle /\ NormalizarIdle /\ ConjuntaIdle /\ InversionIdle

EulerStep ==
    /\ EulerNext
    /\ UNCHANGED <<filterVars, clusterVars, prismVars, gridVars, magVars, derivVars,
                   normVars, jointVars, inverseVars>>

SpecEuler == EulerInit /\ [][EulerStep]_vars

FilterInit ==
    /\ FilterStart
    /\ EulerIdle /\ ClusterIdle /\ PrismIdle /\ ResidualGridIdle /\ TerrafMagIdle /\
       DerivadasIdle /\ NormalizarIdle /\ ConjuntaIdle /\ InversionIdle

FilterStep ==
    /\ FilterNext
    /\ UNCHANGED <<eulerVars, clusterVars, prismVars, gridVars, magVars, derivVars,
                   normVars, jointVars, inverseVars>>

SpecFilter == FilterInit /\ [][FilterStep]_vars

ClusterInit ==
    /\ ClusterStart
    /\ EulerIdle /\ FilterIdle /\ PrismIdle /\ ResidualGridIdle /\ TerrafMagIdle /\
       DerivadasIdle /\ NormalizarIdle /\ ConjuntaIdle /\ InversionIdle

ClusterStep ==
    /\ ClusterNext
    /\ UNCHANGED <<eulerVars, filterVars, prismVars, gridVars, magVars, derivVars,
                   normVars, jointVars, inverseVars>>

SpecCluster == ClusterInit /\ [][ClusterStep]_vars

PrismInit ==
    /\ PrismStart
    /\ EulerIdle /\ FilterIdle /\ ClusterIdle /\ ResidualGridIdle /\ TerrafMagIdle /\
       DerivadasIdle /\ NormalizarIdle /\ ConjuntaIdle /\ InversionIdle

PrismStep ==
    /\ PrismNext
    /\ UNCHANGED <<eulerVars, filterVars, clusterVars, gridVars, magVars, derivVars,
                   normVars, jointVars, inverseVars>>

SpecPrism == PrismInit /\ [][PrismStep]_vars

ResidualGridInit ==
    /\ ResidualGridStart
    /\ EulerIdle /\ FilterIdle /\ ClusterIdle /\ PrismIdle /\ TerrafMagIdle /\
       DerivadasIdle /\ NormalizarIdle /\ ConjuntaIdle /\ InversionIdle

ResidualGridStep ==
    /\ ResidualGridNext
    /\ UNCHANGED <<eulerVars, filterVars, clusterVars, prismVars, magVars, derivVars,
                   normVars, jointVars, inverseVars>>

SpecResidualGrid == ResidualGridInit /\ [][ResidualGridStep]_vars

\* The two entry points of the polynomial regional-residual separation.
RegionalInit ==
    /\ \/ ResidualGridStart /\ TerrafMagIdle
       \/ TerrafMagStart /\ ResidualGridIdle
    /\ EulerIdle /\ FilterIdle /\ ClusterIdle /\ PrismIdle /\ DerivadasIdle /\
       NormalizarIdle /\ ConjuntaIdle /\ InversionIdle

RegionalStep ==
    /\ \/ ResidualGridNext /\ UNCHANGED magVars
       \/ TerrafMagNext /\ UNCHANGED gridVars
    /\ UNCHANGED <<eulerVars, filterVars, clusterVars, prismVars, derivVars, normVars,
                   jointVars, inverseVars>>

SpecRegional == RegionalInit /\ [][RegionalStep]_vars

DerivadasInit ==
    /\ DerivadasStart
    /\ EulerIdle /\ FilterIdle /\ ClusterIdle /\ PrismIdle /\ ResidualGridIdle /\
       TerrafMagIdle /\ NormalizarIdle /\ ConjuntaIdle /\ InversionIdle

DerivadasStep ==
    /\ DerivadasNext
    /\ UNCHANGED <<eulerVars, filterVars, clusterVars, prismVars, gridVars, magVars,
                   normVars, jointVars, inverseVars>>

SpecDerivadas == DerivadasInit /\ [][DerivadasStep]_vars

ConjuntaInit ==
    /\ ConjuntaStart
    /\ EulerIdle /\ FilterIdle /\ ClusterIdle /\ PrismIdle /\ ResidualGridIdle /\
       TerrafMagIdle /\ DerivadasIdle /\ NormalizarIdle /\ InversionIdle

ConjuntaStep ==
    /\ ConjuntaNext
    /\ UNCHANGED <<eulerVars, filterVars, clusterVars, prismVars, gridVars, magVars,
                   derivVars, normVars, inverseVars>>

SpecConjunta == ConjuntaInit /\ [][ConjuntaStep]_vars

\* The two places that normalize: normalizar_array and inversion_conjunta.
NormalizacionInit ==
    /\ \/ NormalizarStart /\ ConjuntaIdle
       \/ ConjuntaStart /\ NormalizarIdle
    /\ EulerIdle /\ FilterIdle /\ ClusterIdle /\ PrismIdle /\ ResidualGridIdle /\
       TerrafMagIdle /\ DerivadasIdle /\ InversionIdle

NormalizacionStep ==
    /\ \/ NormalizarNext /\ UNCHANGED jointVars
       \/ ConjuntaNext /\ UNCHANGED normVars
    /\ UNCHANGED <<eulerVars, filterVars, clusterVars, prismVars, gridVars, magVars,
                   derivVars, inverseVars>>

SpecNormalizacion == NormalizacionInit /\ [][NormalizacionStep]_vars

InversionInit ==
    /\ InversionStart
    /\ EulerIdle /\ FilterIdle /\ ClusterIdle /\ PrismIdle /\ ResidualGridIdle /\
       TerrafMagIdle /\ DerivadasIdle /\ NormalizarIdle /\ ConjuntaIdle

InversionStep ==
    /\ InversionNext
    /\ UNCHANGED <<eulerVars, filterVars, clusterVars, prismVars, gridVars, magVars,
                   derivVars, normVars, jointVars>>

SpecInversion == InversionInit /\ [][InversionStep]_vars

\* Calls whose arguments do not fit together.
ShapesInit ==
    /\ \/ EulerShapesStart /\ InversionIdle
       \/ InversionStart /\ EulerIdle
    /\ FilterIdle /\ ClusterIdle /\ PrismIdle /\ ResidualGridIdle /\ TerrafMagIdle /\
       DerivadasIdle /\ NormalizarIdle /\ ConjuntaIdle

ShapesStep ==
    /\ \/ EulerShapesNext /\ UNCHANGED inverseVars
       \/ InversionNext /\ UNCHANGED eulerVars
    /\ UNCHANGED <<filterVars, clusterVars, prismVars, gridVars, magVars, derivVars,
                   normVars, jointVars>>

SpecShapes == ShapesInit /\ [][ShapesStep]_vars

\* The analysis operations on an instance whose data are loaded.
AnalysisInit ==
    /\ AnalysisStart
    /\ EulerIdle /\ FilterIdle /\ ClusterIdle /\ PrismIdle /\ ResidualGridIdle /\
       DerivadasIdle /\ NormalizarIdle /\ ConjuntaIdle /\ InversionIdle

AnalysisStep ==
    /\ AnalysisNext
    /\ UNCHANGED <<eulerVars, filterVars, clusterVars, prismVars, gridVars, derivVars,
                   normVars, jointVars, inverseVars>>

SpecAnalysis == AnalysisInit /\ [][AnalysisStep]_vars

\* The inversion on meshes with several cells along two axes.
CellsInit ==
    /\ InversionCellsStart
    /\ EulerIdle /\ FilterIdle /\ ClusterIdle /\ PrismIdle /\ ResidualGridIdle /\
       TerrafMagIdle /\ DerivadasIdle /\ NormalizarIdle /\ ConjuntaIdle

CellsStep ==
    /\ InversionNext
    /\ UNCHANGED <<eulerVars, filterVars, clusterVars, prismVars, gridVars, magVars,
                   derivVars, normVars, jointVars>>

SpecCells == CellsInit /\ [][CellsStep]_vars

\* The forward model and the kernel under several field directions.
DirectionsInit ==
    /\ \/ PrismDirectionsStart /\ InversionIdle
       \/ InversionCellsStart /\ PrismIdle
    /\ EulerIdle /\ FilterIdle /\ ClusterIdle /\ ResidualGridIdle /\ TerrafMagIdle /\
       DerivadasIdle /\ NormalizarIdle /\ ConjuntaIdle

DirectionsStep ==
    /\ \/ PrismNext /\ UNCHANGED inverseVars
       \/ InversionNext /\ UNCHANGED prismVars
    /\ UNCHANGED <<eulerVars, filterVars, clusterVars, gridVars, magVars, derivVars,
                   normVars, jointVars>>

SpecDirections == DirectionsInit /\ [][DirectionsStep]_vars

\* Loading datasets and reading their cached coordinates and bounds.
CacheInit ==
    /\ TerrafMagStart
    /\ EulerIdle /\ FilterIdle /\ ClusterIdle /\ PrismIdle /\ ResidualGridIdle /\
       DerivadasIdle /\ NormalizarIdle /\ ConjuntaIdle /\ InversionIdle

CacheStep ==
    /\ CacheNext
    /\ UNCHANGED <<eulerVars, filterVars, clusterVars, prismVars, gridVars, derivVars,
                   normVars, jointVars, inverseVars>>

SpecCache == CacheInit /\ [][CacheStep]_vars

\* Loading one dataset after another on an instance that derives from its field.
ReloadInit ==
    /\ TerrafMagStart
    /\ EulerIdle /\ FilterIdle /\ ClusterIdle /\ PrismIdle /\ ResidualGridIdle /\
       DerivadasIdle /\ NormalizarIdle /\ ConjuntaIdle /\ InversionIdle

ReloadStep ==
    /\ ReloadNext
    /\ UNCHANGED <<eulerVars, filterVars, clusterVars, prismVars, gridVars, derivVars,
                   normVars, jointVars, inverseVars>>

SpecReload == ReloadInit /\ [][ReloadStep]_vars

\* The two outer loops with their iterations taken in any order.
AnyOrderInit ==
    /\ \/ EulerAnyOrderStart /\ InversionIdle
       \/ InversionStart /\ EulerIdle
    /\ FilterIdle /\ ClusterIdle /\ PrismIdle /\ ResidualGridIdle /\ TerrafMagIdle /\
       DerivadasIdle /\ NormalizarIdle /\ ConjuntaIdle

AnyOrderStep ==
    /\ \/ EulerAnyOrderNext /\ UNCHANGED inverseVars
       \/ InversionAnyOrderNext /\ UNCHANGED eulerVars
    /\ UNCHANGED <<filterVars, clusterVars, prismVars, gridVars, magVars, derivVars,
                   normVars, jointVars>>

SpecAnyOrder == AnyOrderInit /\ [][AnyOrderStep]_vars

-----------------------------------------------------------------------------
(* Claims about euler_deconvolution *)

DepthInRange(z0) == IsFinite(z0) /\ z0.n > 0 /\ z0.n < 5000 * z0.d

\* C1: every row of the solution list and of the returned table has 0 < z0 < 5000,
\* and a window whose least-squares solution has z0 <= 0, z0 >= 5000 or a NaN z0
\* adds no row.
C1_DepthInvariant ==
    /\ \A r \in 1..Len(soluciones) : DepthInRange(soluciones[r].z0)
    /\ \A r \in 1..Len(df_euler.rows) : DepthInRange(df_euler.rows[r].z0)
    /\ \A t \in 1..Len(eu_trace) :
          LET e == eu_trace[t]
          IN e.kind = "solved" /\ ~e.out.raised /\ ~DepthInRange(e.out.sol[3])
                => e.rows = <<>>

\* C1's case: the call returned a row, and another window solved to a depth of
\* 5000 or more and was dropped.
C1_Witness ==
    /\ eu_pc = "done"
    /\ Len(df_euler.rows) >= 1
    /\ \E t \in 1..Len(eu_trace) :
          LET e == eu_trace[t]
          IN e.kind = "solved" /\ ~e.out.raised /\ IsFinite(e.out.sol[3])
                /\ e.out.sol[3].n >= 5000 * e.out.sol[3].d

\* Some sample of the window starting at start holds a NaN in one of the six inputs.
HasNaNAt(args, start) ==
    \E c \in (start + 1)..Min2(start + args.ventana, Len(args.x)) :
        \/ IsNaN(args.x[c]) \/ IsNaN(args.y[c]) \/ IsNaN(args.mag[c])
        \/ IsNaN(args.dx_mag[c]) \/ IsNaN(args.dy_mag[c]) \/ IsNaN(args.dz_mag[c])

\* The rows the window at start gives when it is solved on its own.
RowsOfWindow(args, start) ==
    LET w == Window(args, start)
        outs == LstsqOutcomes(DesignA(w, args.structural_index), TargetB(w), 4)
    IN IF Cardinality(outs) = 1
       THEN SolveRows(w, args.structural_index, CHOOSE o \in outs : TRUE)
       ELSE <<>>

RECURSIVE RowsOfStarts(_, _)
RowsOfStarts(args, starts) ==
    IF starts = {} THEN <<>>
    ELSE LET first == MinOf(starts)
         IN RowsOfWindow(args, first) \o RowsOfStarts(args, starts \ {first})

\* C2: a window with a NaN in any of the six inputs is skipped and adds no row, and
\* the returned rows are those of the windows without NaN, as if the skipped
\* windows did not exist.
C2_NaNWindowsSkipped ==
    /\ \A t \in 1..Len(eu_trace) :
          HasNaNAt(eu_args, eu_trace[t].start)
             => eu_trace[t].kind = "nan" /\ eu_trace[t].rows = <<>>
    /\ eu_pc = "done"
          => df_euler.rows =
                RowsOfStarts(eu_args, {k \in WindowStarts(eu_args) : ~HasNaNAt(eu_args, k)})

\* C2's case: the first window was skipped for a NaN, a later one gave a row.
C2_Witness ==
    /\ eu_pc = "done"
    /\ Len(eu_trace) >= 2
    /\ eu_trace[1].kind = "nan"
    /\ eu_trace[2].rows # <<>>
    /\ Len(df_euler.rows) = 1

RECURSIVE TraceRows(_)
TraceRows(tr) ==
    IF tr = <<>> THEN <<>>
    ELSE TraceRows(SubSeq(tr, 1, Len(tr) - 1)) \o
            (IF tr[Len(tr)].out.raised THEN <<>> ELSE tr[Len(tr)].rows)

SomeSolveRaised == \E t \in 1..Len(eu_trace) : eu_trace[t].out.raised

\* C3: a window whose solve raises is dropped and never retried, the loop goes on
\* with the next window, and the call returns the table of the accepted estimates
\* of all the other windows.
C3_FailedSolveSkipped ==
    /\ \A t \in 1..Len(eu_trace) : eu_trace[t].out.raised => eu_trace[t].rows = <<>>
    /\ \A t \in 1..(Len(eu_trace) - 1) :
          eu_trace[t + 1].start = eu_trace[t].start + (eu_args.ventana \div 2)
    /\ SomeSolveRaised
          => /\ eu_pc \in {"loop", "done"}
             /\ eu_pc = "done"
                   => /\ TraceStarts = WindowStarts(eu_args)
                      /\ df_euler.rows = TraceRows(eu_trace)
                      /\ df_euler.rows =
                            RowsOfStarts(eu_args,
                               {k \in WindowStarts(eu_args) :
                                   \A t \in 1..Len(eu_trace) :
                                       eu_trace[t].start = k => ~eu_trace[t].out.raised})

\* C3's case: the first window's solve raised, the next window gave a row, and the
\* call returned it.
C3_Witness ==
    /\ eu_pc = "done"
    /\ Len(eu_trace) >= 2
    /\ eu_trace[1].out.raised
    /\ eu_trace[2].rows # <<>>
    /\ Len(df_euler.rows) = 1

-----------------------------------------------------------------------------
(* Claims about filtro_profundidad *)

DepthBetween(z0, z_min, z_max) ==
    /\ IsFinite(z0)
    /\ z_min.n * z0.d <= z0.n * z_min.d
    /\ z0.n * z_max.d <= z_max.n * z0.d

KeptPositions ==
    {r \in 1..Len(fl_args.soluciones_euler.rows) :
        DepthBetween(fl_args.soluciones_euler.rows[r].z0, fl_args.z_min, fl_args.z_max)}

KthSmallest(S, c) == CHOOSE p \in S : Cardinality({q \in S : q < p}) = c - 1

\* C4: filtro_profundidad returns exactly the rows with z_min <= z0 <= z_max (both
\* inclusive) in their original order, and filtering its result again with the same
\* bounds returns an identical table.
C4_FilterExactAndIdempotent ==
    /\ fl_pc \in {"filtered", "refiltered"}
          => /\ fl_result.columns = fl_args.soluciones_euler.columns
             /\ Len(fl_result.rows) = Cardinality(KeptPositions)
             /\ Len(fl_result.index) = Cardinality(KeptPositions)
             /\ \A c \in 1..Len(fl_result.rows) :
                   /\ fl_result.rows[c] =
                         fl_args.soluciones_euler.rows[KthSmallest(KeptPositions, c)]
                   /\ fl_result.index[c] =
                         fl_args.soluciones_euler.index[KthSmallest(KeptPositions, c)]
    /\ "z0" \in fl_args.soluciones_euler.columns => fl_pc # "raised"
    /\ fl_pc = "refiltered" => fl_again = fl_result

\* C4's case: a table filtered twice, in which a row at z0 = z_min and a row at
\* z0 = z_max were kept and another row was dropped.
C4_Witness ==
    /\ fl_pc = "refiltered"
    /\ Len(fl_result.rows) >= 2
    /\ Len(fl_result.rows) < Len(fl_args.soluciones_euler.rows)
    /\ \E c \in 1..Len(fl_result.rows) : fl_result.rows[c].z0 = fl_args.z_min
    /\ \E c \in 1..Len(fl_result.rows) : fl_result.rows[c].z0 = fl_args.z_max
    /\ fl_args.z_min # fl_args.z_max

-----------------------------------------------------------------------------
(* Claims about clustering_fuentes *)

NumEstimates == Len(cl_args.soluciones_euler.rows)

\* The rows that the c-th returned cluster was computed from.
Members(c) == {r \in 1..NumEstimates : clusters[r] = c}

RECURSIVE SumOver(_, _)
SumOver(f, S) ==
    IF S = {} THEN 0
    ELSE LET a == CHOOSE a \in S : TRUE IN f[a] + SumOver(f, S \ {a})

\* k times the value v equals the integer total.
TimesEquals(v, k, total) == IsFinite(v) /\ v.n * k = total * v.d

\* C5: the returned clusters partition the n >= 2 estimates: every estimate is in
\* exactly one cluster, every cluster has n_solutions >= 1, the n_solutions sum to
\* n, and each centroid is the arithmetic mean of its members.
C5_ClustersPartition ==
    cl_pc = "done" /\ NumEstimates >= 2
       => /\ \A r \in 1..NumEstimates :
                Cardinality({c \in 1..Len(centroides) : r \in Members(c)}) = 1
          /\ \A c \in 1..Len(centroides) :
                /\ centroides[c].n_solutions >= 1
                /\ centroides[c].n_solutions = Cardinality(Members(c))
                /\ TimesEquals(centroides[c].x0, Cardinality(Members(c)),
                      SumOver([r \in 1..NumEstimates |-> cl_args.soluciones_euler.rows[r].x0.n],
                              Members(c)))
                /\ TimesEquals(centroides[c].y0, Cardinality(Members(c)),
                      SumOver([r \in 1..NumEstimates |-> cl_args.soluciones_euler.rows[r].y0.n],
                              Members(c)))
                /\ TimesEquals(centroides[c].z0, Cardinality(Members(c)),
                      SumOver([r \in 1..NumEstimates |-> cl_args.soluciones_euler.rows[r].z0.n],
                              Members(c)))
          /\ SumOver([c \in 1..Len(centroides) |-> centroides[c].n_solutions],
                     1..Len(centroides)) = NumEstimates

\* C5's case: three estimates returned as one cluster of two and one of one.
C5_Witness ==
    /\ cl_pc = "done"
    /\ NumEstimates = 3
    /\ Len(centroides) = 2
    /\ \E c \in 1..2 : centroides[c].n_solutions = 2 /\ centroides[c].x0 = Rat(1, 2)

\* C6: two estimates that clustering_fuentes puts in the same cluster are at
\* Euclidean distance <= radio from each other.
C6_ClusterWithinRadius ==
    cl_pc \in {"labelled", "done"}
       => \A r1, r2 \in 1..NumEstimates :
             clusters[r1] = clusters[r2]
                => LET p == cl_args.soluciones_euler.rows[r1]
                       q == cl_args.soluciones_euler.rows[r2]
                       d2 == (p.x0.n - q.x0.n) * (p.x0.n - q.x0.n)
                               + (p.y0.n - q.y0.n) * (p.y0.n - q.y0.n)
                               + (p.z0.n - q.z0.n) * (p.z0.n - q.z0.n)
                   IN d2 <= cl_args.radio.n * cl_args.radio.n

\* C6's case: three estimates in a row, one unit apart, clustered with radio 1: the
\* two at the ends are not in one cluster although each is within radio of the middle.
C6_Witness ==
    /\ cl_pc = "done"
    /\ cl_args.radio = Q(1)
    /\ NumEstimates = 3
    /\ {cl_args.soluciones_euler.rows[r].x0 : r \in 1..3} = {Q(0), Q(1), Q(2)}
    /\ \A r \in 1..3 : cl_args.soluciones_euler.rows[r].z0 = Q(10)
    /\ Len(centroides) = 2

-----------------------------------------------------------------------------
(* Claims about forward_magnetic_prism *)

\* The 27 sub-source centres: 3 equally spaced positions from x1 to x2, y1 to y2, z1 to z2.
SubCentres(pp) ==
    {<<FAdd(pp.x1, FMul(Rat(a, 2), FSub(pp.x2, pp.x1))),
       FAdd(pp.y1, FMul(Rat(b, 2), FSub(pp.y2, pp.y1))),
       FAdd(pp.z1, FMul(Rat(c, 2), FSub(pp.z2, pp.z1)))>> : a \in 0..2, b \in 0..2, c \in 0..2}

\* The volume of the prism.
PrismVolume(pp) ==
    FMul(FMul(FSub(pp.x2, pp.x1), FSub(pp.y2, pp.y1)), FSub(pp.z2, pp.z1))

\* The radius of the sphere of volume vol: (4/3) pi r^3 = vol.
RadiusOfVolume(vol) == Cbrt(PiNum(FMul(Rat(3, 4), vol), -1))

RECURSIVE SumOfSpheres(_, _, _)
SumOfSpheres(args, c, centres) ==
    IF centres = {} THEN {}
    ELSE LET s == CHOOSE s \in centres : TRUE
         IN SymAdd(SphereAt(args.x_obs[c], args.y_obs[c], args.z_obs[c], s[1], s[2], s[3],
                            RadiusOfVolume(FDiv(PrismVolume(args.prism_params), Q(27))),
                            args.susceptibility),
                   SumOfSpheres(args, c, centres \ {s}))

\* C7: at every observation point forward_magnetic_prism returns the sum of
\* forward_magnetic_sphere over the 27 sub-sources, each a sphere of the prism's
\* susceptibility and of volume prism volume / 27, and the 27 sphere volumes add up
\* to the prism volume.
C7_PrismIsSumOfSpheres ==
    /\ Cardinality(SubCentres(pr_args.prism_params)) = 27
    /\ pr_pc = "done"
          => /\ Len(anomaly_total) = Len(pr_args.x_obs)
             /\ \A c \in 1..Len(pr_args.x_obs) :
                   anomaly_total[c] = SumOfSpheres(pr_args, c, SubCentres(pr_args.prism_params))
    /\ LET V == SphereVolume(EquivalentRadius(SubVolume(pr_args.prism_params)))
       IN V.e = 0 /\ FMul(Q(27), V.q) = PrismVolume(pr_args.prism_params)

\* C7's case: a finished call whose anomaly is not zero at the first observation
\* point and whose prism has a sub-source within the distance floor of that point.
C7_Witness ==
    /\ pr_pc = "done"
    /\ anomaly_total[1] # {}
    /\ \E t \in anomaly_total[1] : t.r2 = Q(1)
    /\ pr_args.prism_params.z1 = Q(0)
    /\ pr_args.x_obs[1] = Q(0)
    /\ Len(pr_args.x_obs) = 2

-----------------------------------------------------------------------------
(* Claims about calcular_residual_grid *)

IsNumber(v) == IsFinite(v)

GridCells(grid) == {<<r, c>> : r \in 1..Len(grid), c \in 1..ShapeOf(grid)[2]}

\* The sum of squared misfits of the coefficients v on the non-NaN cells of the grid.
MisfitOnValid(grid, grado, v) ==
    LET ny == ShapeOf(grid)[1]
        nx == ShapeOf(grid)[2]
        xs == [c \in 1..nx |-> IF nx = 1 THEN Q(0) ELSE Rat(c - 1, nx - 1)]
        ys == [r \in 1..ny |-> IF ny = 1 THEN Q(0) ELSE Rat(r - 1, ny - 1)]
        cells == Cells(ny, nx)
        err == [k \in 1..Len(cells) |->
                   LET r == cells[k][1]
                       c == cells[k][2]
                   IN IF IsNaN(grid[r][c]) THEN Q(0)
                      ELSE Sq(FSub(Dot(DesignRow(xs[c], ys[r], grado), v), grid[r][c]))]
    IN FSum(err)

\* The coefficient vectors one unit step away from v in one coordinate.
Perturbed(v) ==
    {[j \in 1..Len(v) |-> IF j = p THEN FAdd(v[j], Rat(sgn, 2)) ELSE v[j]] :
        p \in 1..Len(v), sgn \in {-1, 1}}

\* C8: a returned (regional, residual) has the shape of grid_mag in both parts,
\* residual = grid_mag - regional at every cell, regional is a number at every cell,
\* residual is NaN exactly where grid_mag is NaN, and the trend is a least-squares
\* fit of the non-NaN cells alone: no nearby coefficients fit those cells better.
C8_RegionalResidual ==
    /\ rg_pc = "done" =>
          LET grid == rg_args.grid_mag
          IN /\ ShapeOf(regional) = ShapeOf(grid)
             /\ ShapeOf(residual) = ShapeOf(grid)
             /\ \A r \in 1..Len(grid) :
                   Len(regional[r]) = Len(grid[r]) /\ Len(residual[r]) = Len(grid[r])
             /\ \A rc \in GridCells(grid) :
                   /\ residual[rc[1]][rc[2]] = FSub(grid[rc[1]][rc[2]], regional[rc[1]][rc[2]])
                   /\ IsNumber(regional[rc[1]][rc[2]])
                   /\ IsNaN(residual[rc[1]][rc[2]]) <=> IsNaN(grid[rc[1]][rc[2]])
             /\ \A w \in Perturbed(coeffs) :
                   FLe(MisfitOnValid(grid, rg_args.grado, coeffs),
                       MisfitOnValid(grid, rg_args.grado, w))
    /\ GradoSupported(rg_args.grado) => rg_pc # "raised"

\* C8's case: a returned pair for a grid with a missing cell and a non-zero residual
\* elsewhere.
C8_Witness ==
    /\ rg_pc = "done"
    /\ \E rc \in GridCells(rg_args.grid_mag) : IsNaN(rg_args.grid_mag[rc[1]][rc[2]])
    /\ \E rc \in GridCells(rg_args.grid_mag) :
          IsNumber(residual[rc[1]][rc[2]]) /\ residual[rc[1]][rc[2]] # Q(0)

-----------------------------------------------------------------------------
(* Claims about the polynomial design matrix *)

RECURSIVE FPow(_, _)
FPow(x, a) == IF a = 0 THEN Q(1) ELSE FMul(FPow(x, a - 1), x)

\* The exponents <<a, b>> of the monomials x^a y^b with a + b <= grado, by total
\* degree and then by the power of y: 1, x, y, x^2, xy, y^2, ...
RECURSIVE Monomials(_)
Monomials(grado) ==
    IF grado < 0 THEN <<>>
    ELSE Monomials(grado - 1) \o [b \in 1..(grado + 1) |-> <<grado - (b - 1), b - 1>>]

MonomialMatrix(points, grado) ==
    [k \in 1..Len(points) |->
        [j \in 1..Len(Monomials(grado)) |->
            FMul(FPow(points[k][1], Monomials(grado)[j][1]),
                 FPow(points[k][2], Monomials(grado)[j][2]))]]

\* The <<x, y>> of the non-NaN cells of the grid of the call, in flattening order.
ValidPoints(grid) ==
    LET cells == Cells(ShapeOf(grid)[1], ShapeOf(grid)[2])
        points == MeshPoints(ShapeOf(grid)[1], ShapeOf(grid)[2])
        keep == SelectSeq([k \in 1..Len(cells) |-> k],
                          LAMBDA k : ~IsNaN(grid[cells[k][1]][cells[k][2]]))
    IN [k \in 1..Len(keep) |-> points[keep[k]]]

PolynomialFitBuilt ==
    /\ tm_ret.op = "calcular_anomalia_residual"
    /\ tm_ret.metodo = "polinomial"
    /\ tm_ret.raised \notin {"ValueError", "AttributeError"}

\* The design matrix of calcular_residual_grid follows the requested degree.
GridDesignByDegree ==
    rg_pc \in {"fitted", "done"} =>
        X_matrix = MonomialMatrix(ValidPoints(rg_args.grid_mag), rg_args.grado)

\* The design matrix of calcular_anomalia_residual follows the requested degree.
AnomaliaDesignByDegree ==
    PolynomialFitBuilt =>
        tm_ret.A = MonomialMatrix(Coordenadas(datos, campo_total), tm_ret.grado)

\* C9: the design matrix of the polynomial regional fit has one column for every
\* monomial x^a y^b with a + b <= grado (3, 6, 10 columns for grado 1, 2, 3), in
\* calcular_residual_grid(grid, grado) and in
\* calcular_anomalia_residual(metodo='polinomial', grado).
C9_DesignMatrixByDegree ==
    /\ Len(Monomials(1)) = 3 /\ Len(Monomials(2)) = 6 /\ Len(Monomials(3)) = 10
    /\ GridDesignByDegree
    /\ AnomaliaDesignByDegree

-----------------------------------------------------------------------------
(* Claims about calcular_derivadas_grid *)

DerivadasKeys ==
    {"dT_dx", "dT_dy", "THG", "dT_dz", "tilt_angle", "tilt_angle_deg", "analytic_signal"}

\* C10: the returned dictionary holds dT_dx, dT_dy, THG, dT_dz, tilt_angle,
\* tilt_angle_deg and analytic_signal, each of the shape of grid_mag, and each is
\* NaN at every cell where grid_mag is NaN. The same holds of every entry as
\* soon as it is stored.
C10_DerivadasPreserveNaN ==
    /\ dv_pc = "done" => DOMAIN results = DerivadasKeys
    /\ \A key \in DOMAIN results :
          /\ Len(results[key]) = Len(dv_args.grid_mag)
          /\ \A r \in 1..Len(dv_args.grid_mag) :
                /\ Len(results[key][r]) = Len(dv_args.grid_mag[r])
                /\ \A c \in 1..Len(dv_args.grid_mag[r]) :
                      IsNaN(dv_args.grid_mag[r][c]) => IsNaN(results[key][r][c])

\* C10's case: a returned dictionary for a grid with a missing cell that has all
\* its neighbours, and another cell where every derivative is a number.
C10_Witness ==
    /\ dv_pc = "done"
    /\ Len(dv_args.grid_mag[1]) = 6
    /\ IsNaN(dv_args.grid_mag[2][5])
    /\ \A key \in DerivadasKeys : ~IsNaN(results[key][2][2])

\* The cells of the grid of the call.
DerivCells == {<<r, c>> : r \in 1..Len(dv_args.grid_mag), c \in 1..Len(dv_args.grid_mag[1])}

\* C11: once the tilt angle is stored, at every cell where THG and dT_dz are
\* finite numbers (THG = 0 included) the tilt angle is a finite number whose
\* quotient has a non-zero denominator, and at every cell where THG is NaN the
\* tilt angle is NaN.
C11_TiltFloor ==
    "tilt_angle" \in DOMAIN results =>
        \A rc \in DerivCells :
            LET thg == results.THG[rc[1]][rc[2]]
                dz == results.dT_dz[rc[1]][rc[2]]
                tilt == results.tilt_angle[rc[1]][rc[2]]
            IN /\ (thg.k = "sqrt" /\ IsFinite(dz)) =>
                      /\ tilt.k = "arctan"
                      /\ ~IsZero(tilt.den)
                      /\ tilt.num = dz
                      /\ tilt.den = IF thg.of.n = 0 THEN Tiny ELSE thg
               /\ IsNaN(thg) => IsNaN(tilt)

\* C11's case: a returned dictionary with a cell where THG = 0 and dT_dz = 0, whose
\* tilt angle is over the floor, and a cell where THG is NaN and dT_dz is a number.
C11_Witness ==
    /\ dv_pc = "done"
    /\ \E rc \in DerivCells :
          /\ results.THG[rc[1]][rc[2]] = FSqrt(Q(0))
          /\ results.dT_dz[rc[1]][rc[2]] = Q(0)
          /\ results.tilt_angle[rc[1]][rc[2]] = [k |-> "arctan", num |-> Q(0), den |-> Tiny]
    /\ \E rc \in DerivCells :
          /\ IsNaN(results.THG[rc[1]][rc[2]])
          /\ IsFinite(results.dT_dz[rc[1]][rc[2]])
          /\ IsNaN(results.tilt_angle[rc[1]][rc[2]])

-----------------------------------------------------------------------------
(* Claims about normalization and inversion_conjunta *)

\* A grid of finite or NaN values with at least two distinct values that are not NaN.
NonConstantLayer(grid) ==
    /\ \A c \in 1..Len(grid) : IsFinite(grid[c]) \/ IsNaN(grid[c])
    /\ \E c, d \in 1..Len(grid) : IsFinite(grid[c]) /\ IsFinite(grid[d]) /\ grid[c] # grid[d]

\* norm is grid brought to [0, 1]: NaN exactly where grid is NaN, every other cell
\* within [0, 1], some cell exactly 0 and some cell exactly 1.
IsUnitScaled(grid, norm) ==
    /\ Len(norm) = Len(grid)
    /\ \A c \in 1..Len(grid) :
          /\ IsNaN(norm[c]) <=> IsNaN(grid[c])
          /\ ~IsNaN(norm[c]) => IsFinite(norm[c]) /\ FLe(Q(0), norm[c]) /\ FLe(norm[c], Q(1))
    /\ \E c \in 1..Len(grid) : norm[c] = Q(0)
    /\ \E c \in 1..Len(grid) : norm[c] = Q(1)

\* C12: min-max normalization of a grid of finite or NaN values with two distinct
\* non-NaN values has minimum 0 and maximum 1 over the non-NaN cells, every non-NaN
\* cell in [0, 1] and NaN exactly where the input is NaN, in
\* normalizar_array(metodo='minmax') and in every normalization of inversion_conjunta.
C12_MinMaxUnitRange ==
    /\ (na_pc = "returned" /\ na_args.metodo = "minmax" /\ NonConstantLayer(na_args.arr))
          => IsUnitScaled(na_args.arr, arr_norm)
    /\ (na_args.metodo = "minmax" /\ NonConstantLayer(na_args.arr)) => na_pc # "raised"
    /\ \A t \in 1..Len(jc_trace) :
          NonConstantLayer(jc_trace[t].of) => IsUnitScaled(jc_trace[t].of, jc_trace[t].norm)

\* C12's case: a finished inversion_conjunta whose magnetic layer, one indicator
\* layer and weighted sum each had two distinct values, one of them with a NaN cell.
C12_Witness ==
    /\ jc_pc = "done"
    /\ Len(jc_trace) = 3
    /\ \A t \in 1..3 : NonConstantLayer(jc_trace[t].of)
    /\ \E c \in 1..Len(jc_args.mag_grid) : IsNaN(jc_args.mag_grid[c])
    /\ \E c \in 1..Len(prospectivity) : prospectivity[c] = Q(1)

\* A layer brought to [0, 1]: every cell less the smallest non-NaN value, over the
\* spread of the non-NaN values.
UnitScale(grid) ==
    LET numbers == {grid[c] : c \in {d \in 1..Len(grid) : ~IsNaN(grid[d])}}
        lo == IF numbers = {} THEN NaN ELSE CHOOSE a \in numbers : \A b \in numbers : FLe(a, b)
        hi == IF numbers = {} THEN NaN ELSE CHOOSE a \in numbers : \A b \in numbers : FLe(b, a)
    IN [c \in 1..Len(grid) |-> FDiv(FSub(grid[c], lo), FSub(hi, lo))]

\* The positions of the indicator layers that are not entirely NaN.
LayersWithData ==
    {t \in 1..Len(jc_args.idx_grids) :
        \E c \in 1..Len(jc_args.idx_grids[t]) : ~IsNaN(jc_args.idx_grids[t][c])}

\* The cell-wise sum of the normalized layers at the positions T, from zero.
RECURSIVE SumOfLayers(_, _)
SumOfLayers(T, c) ==
    IF T = {} THEN Q(0)
    ELSE LET t == CHOOSE t \in T : \A u \in T : u <= t
         IN FAdd(SumOfLayers(T \ {t}, c), UnitScale(jc_args.idx_grids[t])[c])

\* The combined indicator: the sum of the normalized layers that have data over
\* their number (zero when there is none).
CombinedIndicator ==
    [c \in 1..Len(jc_args.mag_grid) |->
        IF LayersWithData = {} THEN Q(0)
        ELSE FDiv(SumOfLayers(LayersWithData, c), Q(Cardinality(LayersWithData)))]

\* C13: the returned prospectivity has every non-NaN cell in [0, 1], and it is the
\* min-max normalization of weights['mag'] * mag_norm + weights['spec'] *
\* spec_combined, with mag_norm the normalized magnetic layer and spec_combined the
\* sum of the normalized indicator layers that are not entirely NaN over their number.
C13_ProspectivityCombination ==
    jc_pc = "done" =>
        /\ \A c \in 1..Len(prospectivity) :
              ~IsNaN(prospectivity[c]) =>
                  /\ IsFinite(prospectivity[c])
                  /\ FLe(Q(0), prospectivity[c]) /\ FLe(prospectivity[c], Q(1))
        /\ mag_norm = UnitScale(jc_args.mag_grid)
        /\ spec_combined = CombinedIndicator
        /\ n_indices = Cardinality(LayersWithData)
        /\ prospectivity =
              UnitScale([c \in 1..Len(jc_args.mag_grid) |->
                            FAdd(FMul(jc_args.weights.mag, UnitScale(jc_args.mag_grid)[c]),
                                 FMul(jc_args.weights.spec, CombinedIndicator[c]))])

\* C13's case: a finished call with two indicator layers, one of them entirely NaN
\* and left out, and a prospectivity that has numbers strictly between 0 and 1.
C13_Witness ==
    /\ jc_pc = "done"
    /\ Len(jc_args.idx_grids) = 2
    /\ Cardinality(LayersWithData) = 1
    /\ \E c \in 1..Len(prospectivity) :
          IsFinite(prospectivity[c]) /\ FLt(Q(0), prospectivity[c]) /\ FLt(prospectivity[c], Q(1))

-----------------------------------------------------------------------------
(* Claims about inversion_susceptibility_3d *)

ZeroVector(v) == \A c \in 1..Len(v) : v[c] = Q(0)

ZeroModel(m) ==
    \A ix \in 1..Len(m) : \A iy \in 1..Len(m[ix]) : ZeroVector(m[ix][iy])

KernelHasResponse == \E r \in 1..Len(G) : \E c \in 1..Len(G[r]) : G[r][c] # {}

\* C14: with alpha > 0 and an observed anomaly that is zero at every observation,
\* the returned susceptibility is 0 in every cell, every residual is 0 and rms = 0.
C14_ZeroAnomalyZeroModel ==
    (inv_pc = "done" /\ FGt(inv_args.alpha, Q(0)) /\ ZeroVector(inv_args.mag_obs))
        => /\ ZeroModel(resultado.susceptibility_3d)
           /\ ZeroVector(resultado.residuals)
           /\ resultado.rms = Q(0)

\* C14's case: a call with alpha > 0 and a zero anomaly returned, over a mesh of
\* two cells whose kernel is not zero.
C14_Witness ==
    /\ inv_pc = "done"
    /\ FGt(inv_args.alpha, Q(0))
    /\ ZeroVector(inv_args.mag_obs)
    /\ NCells(inv_args.mesh_params) = 2
    /\ KernelHasResponse
    /\ ZeroModel(resultado.susceptibility_3d)

\* The kernel of a call, every column computed from the arguments alone.
KernelOf(args) ==
    [r \in 1..Len(args.x_obs) |->
        [c \in 1..NCells(args.mesh_params) |-> SensitivityColumn(args, c - 1)[r]]]

\* How a call with these arguments ends: the exception and the dictionary.
CallOutcome(args) ==
    LET mp == args.mesh_params
    IN IF mp.nx < 0 \/ mp.ny < 0 \/ mp.nz < 0 \/ (NCells(mp) > 0 /\ ~ColumnFits(args))
       THEN [error |-> "ValueError", resultado |-> None]
       ELSE LET err == SolveError(args, KernelOf(args))
            IN [error |-> err,
                resultado |-> IF err = "" THEN Invert(args, KernelOf(args)) ELSE None]

\* C20: max_iter is not used: a call ends as the call with the same arguments and
\* any other max_iter does, with the same susceptibility_3d, mag_calculated,
\* residuals, rms and G_matrix.
C20_MaxIterUnused ==
    inv_pc \in {"done", "raised"}
        => \A max_iter \in MaxIters \ {inv_args.max_iter} :
              CallOutcome([inv_args EXCEPT !.max_iter = max_iter])
                 = [error |-> inv_error, resultado |-> resultado]

\* C20's case: a call with a max_iter of 5 returned a model that is not zero.
C20_Witness ==
    /\ inv_pc = "done"
    /\ inv_args.max_iter = 5
    /\ ~ZeroModel(resultado.susceptibility_3d)
    /\ CallOutcome([inv_args EXCEPT !.max_iter = 50]).resultado = resultado

-----------------------------------------------------------------------------
(* Claims about argument checking *)

EulerLengthsDiffer(args) == \E name \in InputNames : Len(args[name]) # Len(args.x)

InversionLengthsDiffer(args) ==
    Len(args.y_obs) # Len(args.x_obs) \/ Len(args.mag_obs) # Len(args.x_obs)

BadMesh(mp) ==
    \/ mp.nx <= 0 \/ mp.ny <= 0 \/ mp.nz <= 0
    \/ FLe(mp.dx, Q(0)) \/ FLe(mp.dy, Q(0)) \/ FLe(mp.dz, Q(0))

SomeWindowSolved == \E t \in 1..Len(eu_trace) : eu_trace[t].kind = "solved"

\* C15: a call of euler_deconvolution with arrays of different lengths solves no
\* window and does not return, and a call of inversion_susceptibility_3d with a
\* zero or negative mesh dimension or with x_obs, y_obs, mag_obs of different
\* lengths computes no sensitivity column and does not return.
C15_FailFast ==
    /\ (eu_pc # "idle" /\ EulerLengthsDiffer(eu_args))
          => eu_pc # "done" /\ ~SomeWindowSolved
    /\ (inv_pc # "idle" /\ (BadMesh(inv_args.mesh_params) \/ InversionLengthsDiffer(inv_args)))
          => inv_pc # "done" /\ inv_cols = {}

-----------------------------------------------------------------------------
(* Claims about the order of the loop iterations *)

RowSet(rows) == {rows[r] : r \in 1..Len(rows)}

\* The table of the sequential loop: the rows of the windows without NaN, in
\* increasing window order.
SequentialRows(args) ==
    RowsOfStarts(args, {k \in WindowStarts(args) : ~HasNaNAt(args, k)})

\* The kernel with only the columns in cols computed, the others still zero.
PartialKernel(args, cols) ==
    [r \in 1..Len(args.x_obs) |->
        [c \in 1..NCells(args.mesh_params) |->
            IF c - 1 \in cols THEN SensitivityColumn(args, c - 1)[r] ELSE {}]]

\* C19: with the windows (the cells) taken in any order, what the window handled
\* last added is what it adds on its own, the returned estimates are those of the sequential loop, and
\* every computed column of the sensitivity matrix is the response of its own cell,
\* so that the complete matrix and the result are those of the sequential loop.
C19_OrderIndependent ==
    /\ (eu_pc = "loop" /\ eu_trace # <<>>)
          => LET last == eu_trace[Len(eu_trace)]
             IN last.rows = IF last.kind = "solved" /\ ~last.out.raised
                            THEN RowsOfWindow(eu_args, last.start)
                            ELSE <<>>
    /\ eu_pc = "done" => RowSet(df_euler.rows) = RowSet(SequentialRows(eu_args))
    /\ inv_pc \in {"kernel", "done"} => G = PartialKernel(inv_args, inv_cols)
    /\ inv_pc = "done" => resultado = Invert(inv_args, KernelOf(inv_args))

\* C19's case: a later window was solved before an earlier one, both gave an
\* estimate, and the call returned.
C19_Witness ==
    /\ eu_pc = "done"
    /\ Len(eu_trace) >= 2
    /\ eu_trace[1].start > eu_trace[2].start
    /\ eu_trace[1].rows # <<>>
    /\ eu_trace[2].rows # <<>>
    /\ RowSet(df_euler.rows) = RowSet(SequentialRows(eu_args))

\* The same for the sensitivity matrix: the second column was computed while the
\* first was still zero.
C19_ColumnsOutOfOrder ==
    /\ inv_pc = "kernel"
    /\ inv_cols = {1}
    /\ KernelHasResponse

-----------------------------------------------------------------------------
(* Claims about the TerrafMag analysis operations *)

\* The operations that need a field.
FieldOperations ==
    {"calcular_estadisticas", "calcular_anomalia_residual", "calcular_derivada_horizontal",
     "calcular_derivada_direccional", "calcular_derivada_vertical", "calcular_tilt_angle",
     "calcular_gradiente_horizontal_total", "calcular_gradiente_analitic_signal",
     "continuacion_hacia_arriba", "aplicar_filtro_paso_alto", "aplicar_filtro_paso_bajo",
     "reduccion_al_polo", "detectar_anomalias", "suavizar_datos"}

\* The methods calcular_anomalia_residual implements (lines 203, 228).
MetodosResidual == {"polinomial", "media_movil"}

\* This step is a call of an operation that needs a field.
FieldOperationCalled == tm_calls' = tm_calls + 1 /\ tm_ret'.op \in FieldOperations

\* This step is calcular_anomalia_residual with a metodo it does not implement.
UnsupportedMetodoCalled ==
    /\ tm_calls' = tm_calls + 1
    /\ tm_ret'.op = "calcular_anomalia_residual"
    /\ tm_ret'.metodo \notin MetodosResidual

FreshResult(out) == [raised |-> out.raised, value |-> out.value]

\* C17: for a fixed campo_total, calcular_tilt_angle and
\* calcular_gradiente_analitic_signal raise or return the same arrays whatever
\* operations were called before them on the same instance.
C17_DerivativesPure ==
    /\ tm_ret.op = "calcular_tilt_angle" /\ campo_total # None
          => [raised |-> tm_ret.raised, value |-> tm_ret.value]
                = FreshResult(TiltOutcome(campo_total, EmptyDict, None))
    /\ tm_ret.op = "calcular_gradiente_analitic_signal" /\ campo_total # None
          => [raised |-> tm_ret.raised, value |-> tm_ret.value]
                = FreshResult(AnalyticSignalOutcome(campo_total, datos, EmptyDict, None))

\* C18: the loaded series is read-only: no analysis operation (derivatives,
\* filters, residual, tilt, analytic signal, continuation, reduction to the pole,
\* anomaly detection, smoothing, export) changes datos or campo_total.
C18_ReadOnlyAfterLoad ==
    [][tm_calls' = tm_calls + 1 => UNCHANGED <<datos, campo_total>>]_vars

\* A derivative was stored and the export then wrote a frame with one column
\* more than the frame of the instance.
C18_Witness ==
    /\ tm_calls = MaxCalls
    /\ tm_ret.op = "exportar_resultados"
    /\ tm_ret.raised = ""
    /\ "horizontal" \in DOMAIN derivadas
    /\ Len(tm_ret.value) = Len(datos.columns) + 1

-----------------------------------------------------------------------------
(* Claims about the windows of euler_deconvolution *)

\* The indices (from 0) of the w samples from start on.
Span(start, w) == start..(start + w - 1)

\* The window of the model at start holds the samples of Span(start, w) of
\* every input, in order.
HoldsSpan(args, start) ==
    LET win == Window(args, start)
        Is(slice, arr) ==
            /\ Len(slice) = args.ventana
            /\ \A c \in 1..args.ventana : start + c <= Len(arr) /\ slice[c] = arr[start + c]
    IN /\ Is(win.x_w, args.x) /\ Is(win.y_w, args.y) /\ Is(win.T_w, args.mag)
       /\ Is(win.dTdx_w, args.dx_mag) /\ Is(win.dTdy_w, args.dy_mag)
       /\ Is(win.dTdz_w, args.dz_mag)

C24_EverySampleCovered ==
    LET w == eu_args.ventana
        n == Len(eu_args.x)
    IN eu_pc = "done" /\ n >= w =>
          /\ \A k \in 0..(n - 1) :
                \E t \in 1..Len(eu_trace) : k \in Span(eu_trace[t].start, w)
          /\ n = w => Len(eu_trace) = 1

\* Field arrays with NaN where mag has NaN and other values elsewhere.
OtherFields(mag) ==
    {[c \in 1..Len(mag) |-> IF IsNaN(mag[c]) THEN NaN ELSE Inf(1)]}
       \cup {[c \in 1..Len(mag) |-> FAdd(mag[c], Q(c))]}

\* The windows of the trace are skipped or solved alike for the call args, and
\* solving them gives the outcomes the trace holds.
SameWindows(args, tr) ==
    \A t \in 1..Len(tr) :
        LET w == Window(args, tr[t].start)
        IN IF tr[t].kind = "nan" THEN WindowHasNaN(w)
           ELSE /\ ~WindowHasNaN(w)
                /\ tr[t].out \in LstsqOutcomes(DesignA(w, args.structural_index), TargetB(w), 4)

\* The rows the call args appends over the windows of the trace, with the
\* outcomes the trace holds.
RECURSIVE ReplayRows(_, _)
ReplayRows(args, tr) ==
    IF tr = <<>> THEN <<>>
    ELSE LET last == tr[Len(tr)]
         IN ReplayRows(args, SubSeq(tr, 1, Len(tr) - 1)) \o
               (IF last.kind = "nan" THEN <<>>
                ELSE SolveRows(Window(args, last.start), args.structural_index, last.out))

-----------------------------------------------------------------------------
(* Claims about filtro_profundidad on the table of euler_deconvolution *)

\* C23: filtro_profundidad with its default bounds (z_min = 0, z_max = 5000) on
\* the table euler_deconvolution returned does not raise and returns a table
\* identical to it, also when the table holds no estimate.
C23_DefaultFilterIdentity ==
    eu_pc = "done" =>
       LET out == filtro_profundidad(df_euler, Q(0), Q(Z_LIMIT))
       IN out.raised = "" /\ out.frame = df_euler
-----------------------------------------------------------------------------
(* Claims about the cell order of inversion_susceptibility_3d *)

\* The flat solution of the regularized normal equations of a kernel.
Solved(args, kernel) ==
    LET n_cells == NCells(args.mesh_params)
        Gnum == [r \in 1..Len(kernel) |-> [c \in 1..n_cells |-> Realize(kernel[r][c])]]
    IN SolveConsistent(Regularized(Gnum, n_cells, args.alpha),
                       NormalRhs(Gnum, n_cells, args.mag_obs))

\* The response at the observations of a unit-susceptibility sphere of one
\* cell's volume placed at (x_cells[ix], y_cells[iy], z_cells[iz]).
UnitResponse(args, ix, iy, iz) ==
    LET n_obs == Len(args.x_obs)
    IN forward_magnetic_sphere(args.x_obs, Stretch(args.y_obs, n_obs),
                               [c \in 1..n_obs |-> Q(0)],
                               XCells(args)[ix + 1], YCells(args)[iy + 1],
                               ZCells(args)[iz + 1],
                               EquivalentRadius(CellVolume(args.mesh_params)), Q(1),
                               args.inclination, args.declination)

-----------------------------------------------------------------------------
(* Claims about the field direction in the forward model *)

\* The same call under another field direction.
Redirected(args, d) == [args EXCEPT !.inclination = d[1], !.declination = d[2]]

\* The anomaly of the sub-source of a prism at one position of the loops.
SubSource(args, pos) ==
    LET pp == args.prism_params
    IN forward_magnetic_sphere(args.x_obs, args.y_obs, args.z_obs,
                               Linspace(pp.x1, pp.x2, N_SUB)[pos[1]],
                               Linspace(pp.y1, pp.y2, N_SUB)[pos[2]],
                               Linspace(pp.z1, pp.z2, N_SUB)[pos[3]],
                               EquivalentRadius(SubVolume(pp)), args.susceptibility,
                               args.inclination, args.declination)

\* The anomaly of a prism at one observation point, accumulated from one
\* position of the loops to the last.
RECURSIVE PrismFrom(_, _, _)
PrismFrom(args, c, pos) ==
    IF pos = <<>> THEN {}
    ELSE SymAdd(SubSource(args, pos)[c], PrismFrom(args, c, NextLoop(pos)))

\* C29: the anomaly of forward_magnetic_sphere, hence the one returned by
\* forward_magnetic_prism and every column of the sensitivity matrix, is the
\* same under every inclination and declination: a call that differs only in
\* the field direction returns the identical anomaly.
C29_DirectionUnused ==
    \A d \in FieldDirections :
       /\ pr_pc = "loop" /\ pr_loop # <<>>
             => SubSource(Redirected(pr_args, d), pr_loop) = SubSource(pr_args, pr_loop)
       /\ pr_pc = "done"
             => \A c \in 1..Len(pr_args.x_obs) :
                   anomaly_total[c] = PrismFrom(Redirected(pr_args, d), c, <<1, 1, 1>>)
       /\ inv_pc = "done" => resultado.G_matrix = KernelOf(Redirected(inv_args, d))

\* A finished prism call under an inclined field pointing east whose anomaly
\* is not zero.
C29_Witness ==
    /\ pr_pc = "done"
    /\ pr_args.inclination = 30
    /\ pr_args.declination = 90
    /\ \E c \in 1..Len(anomaly_total) : anomaly_total[c] # {}
-----------------------------------------------------------------------------
(* Claims about clustering_fuentes on a single estimate *)

\* C27: clustering_fuentes on a table of exactly one estimate does not raise
\* and returns exactly one cluster, whose centroid is that estimate and whose
\* n_solutions is 1.
C27_SingleEstimateCluster ==
    NumEstimates = 1 /\ cl_pc \notin {"idle", "start"}
       => /\ cl_pc # "raised"
          /\ cl_pc = "done"
                => /\ Len(centroides) = 1
                   /\ centroides[1].x0 = cl_args.soluciones_euler.rows[1].x0
                   /\ centroides[1].y0 = cl_args.soluciones_euler.rows[1].y0
                   /\ centroides[1].z0 = cl_args.soluciones_euler.rows[1].z0
                   /\ centroides[1].n_solutions = 1
-----------------------------------------------------------------------------
(* Claims about the caches and the loaded field of TerrafMag *)

\* C25: whatever calls of cargar_datos, obtener_coordenadas and obtener_bounds
\* came before, a call of obtener_coordenadas() or obtener_bounds(crs) without
\* forzar_recalculo that returns, returns the coordinates or the bounds of the
\* dataset held in datos, never those of a dataset loaded earlier.
C25_CacheCoherent ==
    /\ tm_ret.op = "obtener_coordenadas" /\ ~tm_ret.forzar_recalculo /\ tm_ret.raised = ""
          => datos # None /\ datos.has_geometry /\ tm_ret.value = datos.geometry
    /\ tm_ret.op = "obtener_bounds" /\ ~tm_ret.forzar_recalculo /\ tm_ret.raised = ""
          => /\ datos # None
             /\ datos.has_geometry
             /\ tm_ret.value = BoundsOf(datos, tm_ret.target_crs)

\* C26: after every successful cargar_datos, campo_total is None or the values
\* of a field column of the dataset just loaded, never the field of a dataset
\* loaded before, and an entry of derivadas is derived from the current
\* campo_total.
C26_FieldOfLoadedDataset ==
    tm_ret.op = "cargar_datos" /\ tm_ret.raised = ""
       => /\ \/ campo_total = None
             \/ \E c \in FieldColumns(datos) : campo_total = Array(datos.columns[c].values)
          /\ "horizontal" \in DOMAIN derivadas
                => /\ campo_total # None
                   /\ \E direccion \in Direcciones :
                         derivadas["horizontal"]
                            = HorizontalOutcome(campo_total, EmptyDict, None, direccion).value
-----------------------------------------------------------------------------
(* Claims about the normalization of a constant layer *)

\* A grid whose cells that are not NaN are finite and all equal, with at least
\* one such cell.
ConstantLayer(grid) ==
    /\ \E c \in 1..Len(grid) : IsFinite(grid[c])
    /\ \A c \in 1..Len(grid) : IsFinite(grid[c]) \/ IsNaN(grid[c])
    /\ \A c, d \in 1..Len(grid) : IsFinite(grid[c]) /\ IsFinite(grid[d]) => grid[c] = grid[d]

\* norm is 0 at every cell of grid that is not NaN.
ZeroWhereData(grid, norm) ==
    /\ Len(norm) = Len(grid)
    /\ \A c \in 1..Len(grid) : ~IsNaN(grid[c]) => norm[c] = Q(0)

\* C28: a constant layer is normalized to 0 at every cell that is not NaN,
\* never to NaN through 0/0, by normalizar_array(metodo='minmax') and by every
\* normalization of inversion_conjunta; hence a call of inversion_conjunta on
\* layers without NaN cells, one of them constant, does not return a
\* prospectivity grid that is NaN everywhere.
C28_ConstantLayerZero ==
    /\ (na_pc = "returned" /\ na_args.metodo = "minmax" /\ ConstantLayer(na_args.arr))
          => ZeroWhereData(na_args.arr, arr_norm)
    /\ \A t \in 1..Len(jc_trace) :
          ConstantLayer(jc_trace[t].of) => ZeroWhereData(jc_trace[t].of, jc_trace[t].norm)
    /\ (/\ jc_pc = "done"
        /\ \A c \in 1..Len(jc_args.mag_grid) : IsFinite(jc_args.mag_grid[c])
        /\ \A t \in 1..Len(jc_args.idx_grids) :
              \A c \in 1..Len(jc_args.idx_grids[t]) : IsFinite(jc_args.idx_grids[t][c])
        /\ \/ ConstantLayer(jc_args.mag_grid)
           \/ \E t \in 1..Len(jc_args.idx_grids) : ConstantLayer(jc_args.idx_grids[t]))
          => \E c \in 1..Len(prospectivity) : ~IsNaN(prospectivity[c])

=============================================================================
